---- MODULE Spec2Model ----
(***************************************************************************)
(* A model of the proxy pool manager (ProxyInterface), its cache file, the *)
(* provider registry and QuickProxy of Mallfurion/youtube-factcheck.       *)
(*                                                                         *)
(* One JavaScript event loop runs every asynchronous call.  A call runs    *)
(* without interruption up to its next `await`; each action below is one   *)
(* such run.  Task 0 is the update() the constructor starts, tasks         *)
(* 1..NumCallers are calls issued by clients of the pool.                  *)
(***************************************************************************)
EXTENDS Integers, Sequences, FiniteSets, TLC

\* ----------------------------------------------------------------- bounds
NumRequests == 3
MaxSegments == 2
MaxCookies == 2
NumCallers == 2
MaxIp == 2
MaxTime == 1
MaxMaxProxies == 2
MaxCachePeriod == 1
MaxRetries == 3

\* ------------------------------------------------------- values and codecs
Null == <<>>
Some(x) == <<x>>

ProxyProtocol == {"http", "https"}

\* models.ts: class Proxy (ip, protocol, port); the model's proxies share one port
Proxy(ip, protocol) == [ip |-> ip, protocol |-> protocol, port |-> 8080]

\* Proxy.toJSON / Proxy.fromJSON: the three fields, copied
toJSON(proxy) == [ip |-> proxy.ip, protocol |-> proxy.protocol, port |-> proxy.port]

fromJSON(data) == [ip |-> data.ip, protocol |-> data.protocol, port |-> data.port]

asString(proxy) ==
    proxy.protocol \o "://" \o ToString(proxy.ip) \o ":" \o ToString(proxy.port)

Range(s) == {s[i] : i \in 1..Len(s)}

Take(s, n) == IF Len(s) <= n THEN s ELSE SubSeq(s, 1, n)

FirstOf(s) == IF Len(s) > 0 THEN Some(s[1]) ELSE Null

\* helpers.ts: deduplicateProxies keeps the first proxy of every address string
RECURSIVE DedupFrom(_, _, _)
DedupFrom(proxies, i, final) ==
    IF i > Len(proxies) THEN final
    ELSE IF \E k \in 1..Len(final) : asString(final[k]) = asString(proxies[i])
         THEN DedupFrom(proxies, i + 1, final)
         ELSE DedupFrom(proxies, i + 1, Append(final, proxies[i]))

deduplicateProxiesKeepLast(proxies) ==
    LET n == Len(proxies)
        kept == {i \in 1..n : \A j \in (i + 1)..n : asString(proxies[j]) # asString(proxies[i])}
        RECURSIVE pick(_)
        pick(i) == IF i > n THEN <<>>
                   ELSE IF i \in kept THEN <<proxies[i]>> \o pick(i + 1)
                   ELSE pick(i + 1)
    IN  pick(1)

deduplicateProxies(proxies) == DedupFrom(proxies, 1, <<>>)

\* helpers.ts: normalizeCountries upper-cases every country code
toUpperCase(country) ==
    CASE country = "us" -> "US"
      [] country = "de" -> "DE"
      [] OTHER -> country

normalizeCountries(cs) == [i \in 1..Len(cs) |-> toUpperCase(cs[i])]

RECURSIVE JoinFrom(_, _)
JoinFrom(cs, i) == IF i > Len(cs) THEN "" ELSE cs[i] \o JoinFrom(cs, i + 1)

\* classes.ts: `${maxProxies}${protocol}${this.countries.join('')}`
ConfigStringOf(maxP, prot, cs) == ToString(maxP) \o prot \o JoinFrom(cs, 1)

\* cache.ts
getExpiryNoTtl(timeNow, timeToLive) == timeNow

getExpiry(timeNow, timeToLive) == timeNow + timeToLive

checkExpiryLate(timeNow, expiryDate) == timeNow > expiryDate

checkExpiryNever(timeNow, expiryDate) == FALSE

checkExpiry(timeNow, expiryDate) == timeNow >= expiryDate

\* new Date(cache.expiryIn) of an unparsable string: getTime() is NaN
InvalidDate == -1

\* -------------------------------------------------------- provider registry
\* providers.ts: Providers, in registration order.  `tag` is the protocol the
\* provider function stamps on the proxies it returns: the requested one, or
\* the literal 'http'.
Providers == <<
    [name |-> "ProxyScrape",       countryFilter |-> TRUE,  protocols |-> {"http"},          tag |-> "http"],
    [name |-> "Monosans",          countryFilter |-> TRUE,  protocols |-> {"http"},          tag |-> "requested"],
    [name |-> "MuRongPIG",         countryFilter |-> FALSE, protocols |-> {"http"},          tag |-> "http"],
    [name |-> "Thespeedx",         countryFilter |-> FALSE, protocols |-> {"http"},          tag |-> "requested"],
    [name |-> "Anonym0usWork1221", countryFilter |-> FALSE, protocols |-> {"http", "https"}, tag |-> "requested"],
    [name |-> "Mmpx12",            countryFilter |-> FALSE, protocols |-> {"http", "https"}, tag |-> "requested"],
    [name |-> "GoodProxy",         countryFilter |-> FALSE, protocols |-> {"http"},          tag |-> "http"],
    [name |-> "OpenProxyList",     countryFilter |-> FALSE, protocols |-> {"http"},          tag |-> "http"],
    [name |-> "ProxyDB",           countryFilter |-> TRUE,  protocols |-> {"http", "https"}, tag |-> "requested"] >>

NumProviders == Len(Providers)

ProviderTag(i, prot) == IF Providers[i].tag = "requested" THEN prot ELSE Providers[i].tag

\* Array.from(ProvidersMap.values()) and Providers.values(): the whole registry
AllProviders == [i \in 1..NumProviders |-> i]

EligibleAnyProtocol(i, cs, prot) == Len(cs) = 0 \/ Providers[i].countryFilter

EligibleAnyCountry(i, cs, prot) == prot \in Providers[i].protocols

\* the two `continue` guards of the provider loops (update and QuickProxy):
\* provider i is not skipped
Eligible(i, cs, prot) ==
    /\ prot \in Providers[i].protocols
    /\ (Len(cs) = 0 \/ Providers[i].countryFilter)

\* `for (const provider of list)`: the position after k of the next provider
\* the loop does not skip; Len(list) + 1 if the loop ends
NextEligible(list, k, cs, prot) ==
    LET later == {j \in (k + 1)..Len(list) : Eligible(list[j], cs, prot)}
    IN IF later = {} THEN Len(list) + 1
       ELSE CHOOSE j \in later : \A m \in later : j <= m

\* the address lists a provider call can return, up to renaming: the first n
\* addresses, or one address n times (validateProxies does not deduplicate)
ProviderResults ==
    {[k \in 1..n |-> k] : n \in 0..MaxIp} \cup {[k \in 1..n |-> 1] : n \in 2..MaxIp}

\* what one provider call can produce: it throws (a fetch fails), or returns a
\* list of validated candidates stamped with the provider's protocol tag
ProviderOutcomes(i, prot) ==
    {[throws |-> TRUE, proxies |-> <<>>]} \cup
    {[throws |-> FALSE, proxies |-> [k \in 1..Len(ips) |-> Proxy(ips[k], ProviderTag(i, prot))]] :
        ips \in ProviderResults}

\* ------------------------------------------------------------------ state
VARIABLES
    protocol, countries, providers, maxProxies, autorotate, autoUpdate, cachePeriod,
    proxyList, configString,
    proxies, current, cacheExpiry, updatePromise,
    cacheFile, now,
    upc, uidx, wbuf, path, uerr,
    pc, op, result, err, issuedPending, startedUpdate, qargs

config == <<protocol, countries, providers, maxProxies, autorotate, autoUpdate, cachePeriod,
            proxyList, configString>>
pool == <<proxies, current, cacheExpiry>>
utask == <<upc, uidx, wbuf, path, uerr>>
caller == <<pc, op, result, err, issuedPending, startedUpdate, qargs>>
\* one invocation of YouTubeTranscriptApi.fetch(): its proxy configuration, the
\* shape of the video id, the request it awaits, the try number of the attempt
\* under way, the attempts started, the last error an attempt raised
VARIABLES proxyConfig, videoIdIsUrl, tpc, tryNumber, attempts, terr

\* the agent the HTTP client was constructed with, the route of the request it
\* sent last, its cookie jar, the watch page requests of the attempt under way
\* and the API key the attempt has extracted
VARIABLES agent, via, cookieJar, pages, apiKey

\* the status of the response received last, and the watch page body that
\* _fetchVideoHtml was assigned last
VARIABLES response, html

\* the captions JSON that _extractCaptionsJson returned and the track that
\* findTranscript selected from its catalog
VARIABLES captionsJson, track

catalog == <<captionsJson, track>>

tconfig == <<proxyConfig, videoIdIsUrl, agent>>

transcript == <<tconfig, tpc, tryNumber, attempts, terr, via, cookieJar, pages, apiKey, response, html, catalog>>

\* one invocation of fetchTranscriptWithProxyRotation: its position, its loop
\* counter and the last error it caught
VARIABLES rpc, attempt, lastError

rotation == <<rpc, attempt, lastError>>

\* one call of a function of the libraries on its own: the function with its
\* arguments, and what it returned or threw
VARIABLES call, ret

\* one call of runWithConcurrency: the number of its tasks and its limit, its
\* workerNextIndex and results, the index every worker holds, and whether it has
\* been called and has returned; wlog counts for every index the starts of its
\* task and the writes of its slot, and records whether the task failed
VARIABLES items, limit, workerNextIndex, results, wpos, poolpc, wlog

workerPool == <<items, limit, workerNextIndex, results, wpos, poolpc, wlog>>

\* the warm trigger: the module's warmPromise (the task of the update() it
\* stands for), the requests to the endpoint, and the number of update() calls
\* the trigger has made
VARIABLES warmPromise, wreq, warmStarts

warm == <<warmPromise, wreq, warmStarts>>

library == <<call, ret, workerPool, warm>>

vars == <<config, pool, updatePromise, cacheFile, now, utask, caller, transcript, rotation, library>>

Callers == 1..NumCallers
Tasks == 0..NumCallers

CountryInputs == {<<>>, <<"us">>}

\* static lists handed to the constructor: none, one of a single protocol, and
\* one mixing both protocols with duplicates
StaticLists == {
    <<>>,
    <<Proxy(1, "https")>>,
    <<Proxy(1, "http"), Proxy(1, "https"), Proxy(1, "http"),
      Proxy(2, "https"), Proxy(2, "http")>> }

OtherProtocol(prot) == IF prot = "http" THEN "https" ELSE "http"

\* update(), lines 284-292: the record a pool of the given configuration writes
CacheRecord(maxP, prot, cs, ps, expiry) ==
    [expiryIn |-> expiry, configString |-> ConfigStringOf(maxP, prot, cs), proxies |-> ps]

\* the cache file found at construction: none, or a record left by an earlier
\* pool sharing the cache folder (of this or of another configuration)
InitialCaches(maxP, prot, cs) ==
    {Null}
    \cup {Some(CacheRecord(maxP, prot, cs, <<Proxy(1, prot), Proxy(2, prot)>>, e)) :
            e \in {0, 1, InvalidDate}}
    \cup {Some(CacheRecord(maxP, OtherProtocol(prot), cs, <<Proxy(1, OtherProtocol(prot))>>, MaxTime + 1)),
          Some(CacheRecord(maxP + 1, prot, cs, <<Proxy(2, prot)>>, MaxTime + 1))}

\* -------------------------------------------------------------- update()
\* lines 241-247: the static list short-circuit
StaticFiltered == SelectSeq(proxyList, LAMBDA p : p.protocol = protocol)

StaticApplies == Len(proxyList) > 0 /\ Len(StaticFiltered) > 0

StaticPoolUntruncated == deduplicateProxies(StaticFiltered)

StaticPool == Take(deduplicateProxies(StaticFiltered), maxProxies)

InFlight(t) == upc[t] \in {"read", "prov", "write"}

SettledNotAwaited(t) == upc[t] # "none"

\* `await promise` resumes: the update() of task t has fulfilled or rejected
Settled(t) == upc[t] \in {"ok", "err"}

\* update() up to its first await: lines 237-250
UpdateBegin(t) ==
    /\ IF StaticApplies
       THEN /\ proxies' = StaticPool
            /\ current' = FirstOf(StaticPool)
            /\ upc' = [upc EXCEPT ![t] = "ok"]
            /\ path' = [path EXCEPT ![t] = "static"]
       ELSE /\ proxies' = <<>>
            /\ current' = Null
            /\ upc' = [upc EXCEPT ![t] = "read"]
            /\ path' = [path EXCEPT ![t] = "none"]
    /\ cacheExpiry' = Null
    /\ uidx' = [uidx EXCEPT ![t] = 0]
    /\ wbuf' = [wbuf EXCEPT ![t] = Null]
    /\ uerr' = [uerr EXCEPT ![t] = ""]

\* loadCache(), lines 205-216: the record is trusted
CacheAccepted ==
    /\ cacheFile # Null
    /\ cacheFile[1].configString = configString
    /\ cacheFile[1].expiryIn # InvalidDate
    /\ ~checkExpiry(now, cacheFile[1].expiryIn)

\* lines 276-281: the error of a sweep that obtained no proxy
NoProxiesFound(prot) ==
    IF prot = "https"
    THEN "No proxies were found for the current filter settings. Tip: https proxies can be rare; recommend setting protocol to http"
    ELSE "No proxies were found for the current filter settings."

\* lines 275-292, reached when the provider loop ends with `acc` accumulated:
\* throw on an empty pool, else deduplicate, stamp the expiry, start the write
SweepFinish(t, acc) ==
    IF Len(acc) = 0
    THEN /\ proxies' = acc
         /\ cacheExpiry' = cacheExpiry
         /\ upc' = [upc EXCEPT ![t] = "err"]
         /\ uerr' = [uerr EXCEPT ![t] = NoProxiesFound(protocol)]
         /\ wbuf' = wbuf
    ELSE /\ uerr' = uerr
         /\ proxies' = deduplicateProxies(acc)
         /\ cacheExpiry' = Some(getExpiry(now, cachePeriod))
         /\ upc' = [upc EXCEPT ![t] = "write"]
         /\ wbuf' = [wbuf EXCEPT ![t] =
                Some([expiryIn |-> getExpiry(now, cachePeriod),
                      configString |-> configString,
                      proxies |-> [i \in 1..Len(deduplicateProxies(acc)) |->
                                      toJSON(deduplicateProxies(acc)[i])]])]

\* readFile settles: loadCache() (lines 200-234) and update() up to its next
\* await (lines 251-265)
UpdateRead(t) ==
    /\ upc[t] = "read"
    /\ LET ps == IF CacheAccepted
                 THEN [i \in 1..Len(cacheFile[1].proxies) |-> fromJSON(cacheFile[1].proxies[i])]
                 ELSE proxies
           first == NextEligible(providers, 0, countries, protocol)
       IN /\ current' = IF CacheAccepted THEN FirstOf(ps) ELSE current
          /\ IF Len(ps) > 0
             THEN /\ proxies' = ps
                  /\ cacheExpiry' = IF CacheAccepted THEN Some(cacheFile[1].expiryIn) ELSE cacheExpiry
                  /\ upc' = [upc EXCEPT ![t] = "ok"]
                  /\ path' = [path EXCEPT ![t] = IF CacheAccepted THEN "cache" ELSE "foreign"]
                  /\ UNCHANGED <<uidx, wbuf, uerr>>
             ELSE IF first <= Len(providers)
             THEN /\ proxies' = ps
                  /\ cacheExpiry' = IF CacheAccepted THEN Some(cacheFile[1].expiryIn) ELSE cacheExpiry
                  /\ upc' = [upc EXCEPT ![t] = "prov"]
                  /\ uidx' = [uidx EXCEPT ![t] = first]
                  /\ path' = [path EXCEPT ![t] = "sweep"]
                  /\ UNCHANGED <<wbuf, uerr>>
             ELSE /\ SweepFinish(t, ps)
                  /\ path' = [path EXCEPT ![t] = "sweep"]
                  /\ UNCHANGED uidx
    /\ UNCHANGED <<config, library, transcript, rotation, updatePromise, cacheFile, now, caller>>

\* fetcher.ts, fetchText: the error of a provider whose request failed
RequestFailed == "Request failed"

\* fsPromises.writeFile rejects
WriteFailed == "writeFile failed"

SweepFullNever(acc) == FALSE

\* lines 270-272: the accumulated pool has reached maxProxies
SweepFull(acc) == Len(acc) >= maxProxies

\* a provider call settles: lines 262-273, then the next call or lines 275-292
UpdateProvider(t) ==
    /\ upc[t] = "prov"
    /\ \E out \in ProviderOutcomes(providers[uidx[t]], protocol) :
         IF out.throws
         THEN /\ upc' = [upc EXCEPT ![t] = "err"]
              /\ uerr' = [uerr EXCEPT ![t] = RequestFailed]
              /\ uidx' = [uidx EXCEPT ![t] = 0]
              /\ UNCHANGED <<proxies, cacheExpiry, wbuf>>
         ELSE LET acc == proxies \o out.proxies
                  nxt == NextEligible(providers, uidx[t], countries, protocol)
              IN IF ~SweepFull(acc) /\ nxt <= Len(providers)
                 THEN /\ proxies' = acc
                      /\ uidx' = [uidx EXCEPT ![t] = nxt]
                      /\ UNCHANGED <<cacheExpiry, upc, wbuf, uerr>>
                 ELSE /\ SweepFinish(t, acc)
                      /\ uidx' = [uidx EXCEPT ![t] = IF Len(acc) = 0 THEN 0 ELSE uidx[t]]
    /\ UNCHANGED <<config, library, transcript, rotation, current, path, updatePromise, cacheFile, now, caller>>

\* writeFile settles: line 292 and, when it succeeded, line 293
UpdateWrite(t) ==
    /\ upc[t] = "write"
    /\ \E written \in BOOLEAN :
         IF written
         THEN /\ cacheFile' = wbuf[t]
              /\ current' = FirstOf(proxies)
              /\ upc' = [upc EXCEPT ![t] = "ok"]
         ELSE /\ upc' = [upc EXCEPT ![t] = "err"]
              /\ UNCHANGED <<cacheFile, current>>
    /\ uerr' = [uerr EXCEPT ![t] = IF upc'[t] = "err" THEN WriteFailed ELSE ""]
    /\ wbuf' = [wbuf EXCEPT ![t] = Null]
    /\ uidx' = [uidx EXCEPT ![t] = 0]
    /\ UNCHANGED <<config, library, transcript, rotation, proxies, cacheExpiry, path, updatePromise, now, caller>>

\* ------------------------------------------------------------ the callers
Idle(c) == pc[c] \in {"idle", "done", "failed"}

\* every caller issues one call; callers are interchangeable, so they call in
\* the order of their numbers (a later call may start before or after an
\* earlier one has returned)
MayCall(c) == pc[c] = "idle" /\ \A d \in Callers : d < c => pc[d] # "idle"

Fail(c, message) ==
    /\ pc' = [pc EXCEPT ![c] = "failed"]
    /\ err' = [err EXCEPT ![c] = message]
    /\ result' = [result EXCEPT ![c] = Null]

Return(c, value) ==
    /\ pc' = [pc EXCEPT ![c] = "done"]
    /\ result' = [result EXCEPT ![c] = value]
    /\ err' = err

\* ensureUpdated(), line 315: a refresh reference is held, so the call awaits it
AwaitsRefreshNever == FALSE

AwaitsRefresh == updatePromise

\* get() is called: line 344 up to the await inside ensureUpdated()
GetBegin(c) ==
    /\ op' = [op EXCEPT ![c] = "get"]
    /\ pc' = [pc EXCEPT ![c] = IF AwaitsRefresh THEN "ensure" ELSE "rotate"]
    /\ result' = [result EXCEPT ![c] = Null]
    /\ err' = [err EXCEPT ![c] = ""]
    /\ issuedPending' = [issuedPending EXCEPT ![c] = InFlight(0)]
    /\ startedUpdate' = [startedUpdate EXCEPT ![c] = Null]
    /\ qargs' = [qargs EXCEPT ![c] = Null]

GetStart(c) ==
    /\ MayCall(c)
    /\ rpc = "idle"
    /\ GetBegin(c)
    /\ UNCHANGED <<config, library, transcript, rotation, pool, updatePromise, cacheFile, now, utask>>

\* the awaited refresh has settled: lines 316-317.  A rejected refresh makes the
\* await throw, and line 317 is not reached.
GetEnsure(c) ==
    /\ pc[c] = "ensure"
    /\ Settled(0)
    /\ IF upc[0] = "ok"
       THEN /\ updatePromise' = FALSE
            /\ pc' = [pc EXCEPT ![c] = "rotate"]
            /\ UNCHANGED <<err, result>>
       ELSE /\ Fail(c, uerr[0])
            /\ UNCHANGED updatePromise
    /\ UNCHANGED <<config, library, transcript, rotation, pool, cacheFile, now, utask, op, issuedPending, startedUpdate, qargs>>

ReselectNone(list, nextIndex) == Null

\* rotate(), lines 339-340: the member at the drawn index
Reselect(list, nextIndex) == Some(list[nextIndex])

\* rotate(), lines 336-340
RotatePick(c) ==
    IF Len(proxies) = 0
    THEN /\ Fail(c, "No proxies available to rotate.")
         /\ UNCHANGED current
    ELSE /\ \E nextIndex \in 1..Len(proxies) : current' = Reselect(proxies, nextIndex)
         /\ pc' = [pc EXCEPT ![c] = "ret"]
         /\ UNCHANGED <<err, result>>

\* get(), lines 348-351
GetResult(c) ==
    IF current # Null
    THEN Return(c, current)
    ELSE Fail(c, "No proxy available in current, current is null")

\* get() resumes after ensureUpdated(): line 345 and rotate() up to its await
\* (lines 322-335), or lines 348-351 when autorotate is off
GetRotate(c) ==
    /\ pc[c] = "rotate"
    /\ IF ~autorotate
       THEN /\ GetResult(c)
            /\ UNCHANGED <<pool, utask, startedUpdate>>
       ELSE IF autoUpdate /\ cacheExpiry # Null /\ checkExpiry(now, cacheExpiry[1])
       THEN /\ UpdateBegin(c)
            /\ pc' = [pc EXCEPT ![c] = "updating"]
            /\ startedUpdate' = [startedUpdate EXCEPT ![c] =
                    Some([expiry |-> cacheExpiry[1], at |-> now, refresh |-> upc[0]])]
            /\ UNCHANGED <<err, result>>
       ELSE IF autoUpdate /\ cacheExpiry = Null /\ Len(proxies) = 0
       THEN /\ Fail(c, "No cache available but validateCache is true.")
            /\ UNCHANGED <<pool, utask, startedUpdate>>
       ELSE /\ RotatePick(c)
            /\ UNCHANGED <<proxies, cacheExpiry, utask, startedUpdate>>
    /\ UNCHANGED <<config, library, transcript, rotation, updatePromise, cacheFile, now, op, issuedPending, qargs>>

\* the update() rotate() awaited has settled: line 327, then lines 336-340
GetAfterUpdate(c) ==
    /\ pc[c] = "updating" /\ op[c] = "get"
    /\ Settled(c)
    /\ IF upc[c] = "err"
       THEN /\ Fail(c, uerr[c])
            /\ UNCHANGED current
       ELSE RotatePick(c)
    /\ UNCHANGED <<config, library, transcript, rotation, proxies, cacheExpiry, updatePromise, cacheFile, now, utask,
                   op, issuedPending, startedUpdate, qargs>>

\* get() resumes after rotate(): lines 348-351
GetReturn(c) ==
    /\ pc[c] = "ret"
    /\ GetResult(c)
    /\ UNCHANGED <<config, library, transcript, rotation, pool, updatePromise, cacheFile, now, utask,
                   op, issuedPending, startedUpdate, qargs>>

\* a client calls update() (asyncUpdate, async_update, the warm trigger)
UpdateCall(c) ==
    /\ MayCall(c)
    /\ UpdateBegin(c)
    /\ op' = [op EXCEPT ![c] = "update"]
    /\ pc' = [pc EXCEPT ![c] = "updating"]
    /\ result' = [result EXCEPT ![c] = Null]
    /\ err' = [err EXCEPT ![c] = ""]
    /\ issuedPending' = [issuedPending EXCEPT ![c] = FALSE]
    /\ startedUpdate' = [startedUpdate EXCEPT ![c] = Null]
    /\ qargs' = [qargs EXCEPT ![c] = Null]
    /\ UNCHANGED <<config, library, transcript, rotation, updatePromise, cacheFile, now>>

UpdateReturn(c) ==
    /\ pc[c] = "updating" /\ op[c] = "update"
    /\ Settled(c)
    /\ IF upc[c] = "ok" THEN Return(c, Null) ELSE Fail(c, uerr[c])
    /\ UNCHANGED <<config, library, transcript, rotation, pool, updatePromise, cacheFile, now, utask,
                   op, issuedPending, startedUpdate, qargs>>

\* rotate(), lines 336-340, as the last step of a client's rotate() call
RotateFinish(c) ==
    IF Len(proxies) = 0
    THEN /\ Fail(c, "No proxies available to rotate.")
         /\ UNCHANGED current
    ELSE /\ \E nextIndex \in 1..Len(proxies) : current' = Reselect(proxies, nextIndex)
         /\ Return(c, Null)

\* a client calls rotate(options): lines 322-340 up to the await of line 327
RotateCall(c) ==
    /\ MayCall(c)
    /\ \E validateCache \in BOOLEAN :
         /\ qargs' = [qargs EXCEPT ![c] = Some([validateCache |-> validateCache])]
         /\ IF validateCache /\ cacheExpiry # Null /\ checkExpiry(now, cacheExpiry[1])
            THEN /\ UpdateBegin(c)
                 /\ pc' = [pc EXCEPT ![c] = "updating"]
                 /\ UNCHANGED <<err, result>>
            ELSE IF validateCache /\ cacheExpiry = Null /\ Len(proxies) = 0
            THEN /\ Fail(c, "No cache available but validateCache is true.")
                 /\ UNCHANGED <<pool, utask>>
            ELSE /\ RotateFinish(c)
                 /\ UNCHANGED <<proxies, cacheExpiry, utask>>
    /\ op' = [op EXCEPT ![c] = "rotate"]
    /\ issuedPending' = [issuedPending EXCEPT ![c] = FALSE]
    /\ startedUpdate' = [startedUpdate EXCEPT ![c] = Null]
    /\ UNCHANGED <<config, library, transcript, rotation, updatePromise, cacheFile, now>>

\* the update() a client's rotate() awaited has settled: line 327, then 336-340
RotateAfterUpdate(c) ==
    /\ pc[c] = "updating" /\ op[c] = "rotate"
    /\ Settled(c)
    /\ IF upc[c] = "err"
       THEN /\ Fail(c, uerr[c])
            /\ UNCHANGED current
       ELSE RotateFinish(c)
    /\ UNCHANGED <<config, library, transcript, rotation, proxies, cacheExpiry, updatePromise, cacheFile, now, utask,
                   op, issuedPending, startedUpdate, qargs>>

\* --------------------------------------------------------------- QuickProxy
\* quickProxy.ts: the provider loop from index i on, up to the next call
QuickAdvance(c, i, cs, prot) ==
    LET nxt == NextEligible(AllProviders, i, cs, prot)
    IN IF nxt <= Len(AllProviders)
       THEN /\ pc' = [pc EXCEPT ![c] = "quick"]
            /\ uidx' = [uidx EXCEPT ![c] = nxt]
            /\ UNCHANGED <<err, result>>
       ELSE /\ Return(c, Null)
            /\ uidx' = [uidx EXCEPT ![c] = 0]

QuickCall(c) ==
    /\ MayCall(c)
    /\ \E prot \in ProxyProtocol, cin \in CountryInputs :
         /\ qargs' = [qargs EXCEPT ![c] =
                Some([protocol |-> prot, countries |-> normalizeCountries(cin)])]
         /\ op' = [op EXCEPT ![c] = "quick"]
         /\ issuedPending' = [issuedPending EXCEPT ![c] = FALSE]
         /\ startedUpdate' = [startedUpdate EXCEPT ![c] = Null]
         /\ QuickAdvance(c, 0, normalizeCountries(cin), prot)
    /\ UNCHANGED <<config, library, transcript, rotation, pool, updatePromise, cacheFile, now, upc, wbuf, path, uerr>>

\* a provider call of QuickProxy settles: lines 73-80
QuickStep(c) ==
    /\ pc[c] = "quick"
    /\ \E out \in ProviderOutcomes(AllProviders[uidx[c]], qargs[c][1].protocol) :
         IF ~out.throws /\ Len(out.proxies) > 0
         THEN /\ Return(c, Some(out.proxies[1]))
              /\ uidx' = [uidx EXCEPT ![c] = 0]
         ELSE QuickAdvance(c, uidx[c], qargs[c][1].countries, qargs[c][1].protocol)
    /\ UNCHANGED <<config, library, transcript, rotation, pool, updatePromise, cacheFile, now, upc, wbuf, path, uerr,
                   op, issuedPending, startedUpdate, qargs>>

\* ------------------------------------------------------------------- time
Tick ==
    /\ now < MaxTime
    /\ now' = now + 1
    /\ UNCHANGED <<config, library, transcript, rotation, pool, updatePromise, cacheFile, utask, caller>>

\* ------------------------------------------------------ the specifications
\* constructor, lines 140-154: the selected providers, or the whole registry
SelectedProviders(selectedProviders) ==
    IF Len(selectedProviders) > 0 THEN selectedProviders ELSE AllProviders

\* a selection of three providers: one of http only that filters by country
\* (ProxyScrape), one of both protocols that does not (Mmpx12), one of both
\* protocols that does (ProxyDB)
ShortSelection == <<1, 6, 9>>

\* the state after `new ProxyInterface(options)`: lines 133-181
InitPoolOf(selections, countryInputs) ==
    /\ protocol \in ProxyProtocol
    /\ countries \in {normalizeCountries(cin) : cin \in countryInputs}
    /\ providers \in {SelectedProviders(sel) : sel \in selections}
    /\ maxProxies \in 1..MaxMaxProxies
    /\ autorotate \in BOOLEAN
    /\ autoUpdate \in BOOLEAN
    /\ cachePeriod \in 1..MaxCachePeriod
    /\ proxyList \in StaticLists
    /\ configString = ConfigStringOf(maxProxies, protocol, countries)
    /\ cacheFile \in InitialCaches(maxProxies, protocol, countries)
    /\ now = 0
    /\ updatePromise = autoUpdate
    /\ proxies = IF autoUpdate /\ StaticApplies THEN StaticPool ELSE <<>>
    /\ current = FirstOf(proxies)
    /\ cacheExpiry = Null
    /\ upc = [t \in Tasks |->
                IF t = 0 /\ autoUpdate
                THEN (IF StaticApplies THEN "ok" ELSE "read")
                ELSE "none"]
    /\ path = [t \in Tasks |->
                IF t = 0 /\ autoUpdate /\ StaticApplies THEN "static" ELSE "none"]
    /\ uidx = [t \in Tasks |-> 0]
    /\ wbuf = [t \in Tasks |-> Null]
    /\ uerr = [t \in Tasks |-> ""]
    /\ pc = [c \in Callers |-> "idle"]
    /\ op = [c \in Callers |-> "none"]
    /\ result = [c \in Callers |-> Null]
    /\ err = [c \in Callers |-> ""]
    /\ issuedPending = [c \in Callers |-> FALSE]
    /\ startedUpdate = [c \in Callers |-> Null]
    /\ qargs = [c \in Callers |-> Null]

\* no transcript is being fetched
TranscriptIdle ==
    /\ proxyConfig = Null
    /\ videoIdIsUrl = FALSE
    /\ tpc = "idle"
    /\ tryNumber = 0
    /\ attempts = 0
    /\ terr = Null
    /\ agent = Null
    /\ via = Null
    /\ cookieJar = <<>>
    /\ pages = 0
    /\ apiKey = Null
    /\ response = Null
    /\ html = Null
    /\ captionsJson = Null
    /\ track = Null

\* fetchTranscriptWithProxyRotation is not running
RotationIdle ==
    /\ rpc = "idle"
    /\ attempt = 0
    /\ lastError = Null

\* no function is called on its own
LibraryIdle ==
    /\ call = Null
    /\ ret = Null
    /\ items = 0 /\ limit = 1 /\ workerNextIndex = 0
    /\ results = <<>> /\ wlog = <<>>
    /\ wpos = <<>>
    /\ poolpc = "idle"
    /\ warmPromise = Null
    /\ wreq = [r \in 1..NumRequests |-> [pc |-> "idle"]]
    /\ warmStarts = 0

InitPool(selections) ==
    InitPoolOf(selections, CountryInputs) /\ TranscriptIdle /\ RotationIdle /\ LibraryIdle

\* Spec: a pool without country filter over a short provider selection, its
\* cache file absent or left by a pool of the same configuration, with
\* concurrent get() and update() calls
Init ==
    /\ InitPool({ShortSelection})
    /\ countries = <<>>
    /\ (cacheFile = Null \/ cacheFile[1].expiryIn \in {0, 1})

Next ==
    \/ \E t \in Tasks : UpdateRead(t)
    \/ \E t \in Tasks : UpdateProvider(t)
    \/ \E t \in Tasks : UpdateWrite(t)
    \/ \E c \in Callers : GetStart(c)
    \/ \E c \in Callers : GetEnsure(c)
    \/ \E c \in Callers : GetRotate(c)
    \/ \E c \in Callers : GetAfterUpdate(c)
    \/ \E c \in Callers : GetReturn(c)
    \/ \E c \in Callers : UpdateCall(c)
    \/ \E c \in Callers : UpdateReturn(c)
    \/ Tick

Spec == Init /\ [][Next]_vars

\* SpecRegistry: a pool over the whole provider registry and QuickProxy, the
\* calls of one client at a time beside the constructor's refresh
InitRegistry == InitPool({<<>>})

NextRegistry ==
    \/ \E t \in {0, 1} : UpdateRead(t)
    \/ \E t \in {0, 1} : UpdateProvider(t)
    \/ \E t \in {0, 1} : UpdateWrite(t)
    \/ GetStart(1)
    \/ GetEnsure(1)
    \/ GetRotate(1)
    \/ GetAfterUpdate(1)
    \/ GetReturn(1)
    \/ UpdateCall(1)
    \/ UpdateReturn(1)
    \/ RotateCall(1)
    \/ RotateAfterUpdate(1)
    \/ QuickCall(1)
    \/ QuickStep(1)
    \/ Tick

SpecRegistry == InitRegistry /\ [][NextRegistry]_vars

\* the same two countries given in either order
CountryOrders == {<<"us", "de">>, <<"de", "us">>}

\* SpecConstruct: pools constructed over every configuration, two-country
\* filters in either order included, and the refresh their constructor starts
InitConstruct ==
    /\ InitPoolOf({<<>>, ShortSelection}, CountryInputs \cup CountryOrders)
    /\ TranscriptIdle
    /\ RotationIdle
    /\ LibraryIdle

NextConstruct ==
    \/ UpdateRead(0)
    \/ UpdateProvider(0)
    \/ UpdateWrite(0)
    \/ Tick

SpecConstruct == InitConstruct /\ [][NextConstruct]_vars

\* -------------------------------------------------- the transcript pipeline
\* proxies.ts: no configuration, a generic one (retriesWhenBlocked of the base
\* class, 0) or a Webshare one with its own retriesWhenBlocked
GenericProxyConfig(url) == [kind |-> "generic", retriesWhenBlocked |-> 0, url |-> url]

WebshareProxyConfig(r) ==
    [kind |-> "webshare", retriesWhenBlocked |-> r, url |-> "http://user-rotate:pw@p.webshare.io:80/"]

ProxyConfigs ==
    {Null, Some(GenericProxyConfig("http://proxy:8080"))}
    \cup {Some(WebshareProxyConfig(r)) : r \in 0..MaxRetries}

\* _fetchCaptionsJson, line 496
RetriesOf(cfg) == IF cfg # Null THEN cfg[1].retriesWhenBlocked ELSE 0

\* the response statuses told apart by raiseHttpErrors
HttpStatuses == {200, 429, 500}

raiseHttpErrorsOkFirst(status) ==
    IF ~(status \in 200..299) THEN "YouTubeRequestFailed" ELSE ""

\* raiseHttpErrors: the error a response raises, "" if none
raiseHttpErrors(status) ==
    IF status = 429 THEN "IpBlocked"
    ELSE IF ~(status \in 200..299) THEN "YouTubeRequestFailed"
    ELSE ""

IsRequestBlockedOrFailed(name) == name \in {"RequestBlocked", "IpBlocked", "YouTubeRequestFailed"}

\* `error instanceof RequestBlocked`; IpBlocked extends RequestBlocked
IsRequestBlocked(name) == name \in {"RequestBlocked", "IpBlocked"}

\* RequestBlocked._proxyConfig: null until withProxyConfig stores the
\* configuration of the fetcher that re-raises the error
ErrorProxyConfig(e) == IF e.annotated THEN proxyConfig ELSE Null

\* RequestBlocked.causeMessage; a WebshareProxyConfig is a GenericProxyConfig
\* too and is tested first
causeMessage(e) ==
    IF ErrorProxyConfig(e) # Null /\ ErrorProxyConfig(e)[1].kind = "webshare"
    THEN "WITH_WEBSHARE_PROXY_CAUSE_MESSAGE"
    ELSE IF ErrorProxyConfig(e) # Null /\ ErrorProxyConfig(e)[1].kind \in {"generic", "webshare"}
    THEN "WITH_GENERIC_PROXY_CAUSE_MESSAGE"
    ELSE "CAUSE_MESSAGE"

\* what the pipeline looks for in a watch page body: the consent form, the
\* value of its "v" field, the INNERTUBE_API_KEY, the recaptcha marker
PageBodies == [consent : BOOLEAN, consentValue : BOOLEAN, key : BOOLEAN, captcha : BOOLEAN]

extractInnertubeApiKeyAlways(body) == ""

extractInnertubeApiKeyCaptchaFirst(body) ==
    IF body.captcha THEN "IpBlocked"
    ELSE IF body.key THEN ""
    ELSE "YouTubeDataUnparsable"

\* _extractInnertubeApiKey: the error it raises, "" if a key is found
extractInnertubeApiKey(body) ==
    IF body.key THEN ""
    ELSE IF body.captcha THEN "IpBlocked"
    ELSE "YouTubeDataUnparsable"

\* what the pipeline reads of the data API answer: playabilityStatus.status
\* ("" if absent), its reason, whether captionTracks is absent, an empty list
\* or a list of tracks, whether a track of a requested language exists and
\* whether its URL asks for a PO token
InnertubeAnswers ==
    [status : {"", "OK", "LOGIN_REQUIRED", "ERROR", "UNPLAYABLE"},
     reason : {"bot", "age", "unavailable", "other"},
     tracks : {"absent", "empty", "listed"}, requested : BOOLEAN, poToken : BOOLEAN]

assertPlayabilityAgeFirst(data, isUrl) ==
    IF data.status = "" \/ data.status = "OK" THEN ""
    ELSE IF data.status = "LOGIN_REQUIRED" THEN "AgeRestricted"
    ELSE IF data.status = "ERROR" /\ data.reason = "unavailable"
         THEN (IF isUrl THEN "InvalidVideoId" ELSE "VideoUnavailable")
    ELSE "VideoUnplayable"

\* _assertPlayability: the error it raises, "" if none
assertPlayability(data, isUrl) ==
    IF data.status = "" \/ data.status = "OK" THEN ""
    ELSE IF data.status = "LOGIN_REQUIRED" /\ data.reason = "bot" THEN "RequestBlocked"
    ELSE IF data.status = "LOGIN_REQUIRED" /\ data.reason = "age" THEN "AgeRestricted"
    ELSE IF data.status = "ERROR" /\ data.reason = "unavailable"
         THEN (IF isUrl THEN "InvalidVideoId" ELSE "VideoUnavailable")
    ELSE "VideoUnplayable"

\* _extractCaptionsJson: the error it raises, "" if the catalog is returned
extractCaptionsJson(data, isUrl) ==
    IF assertPlayability(data, isUrl) # "" THEN assertPlayability(data, isUrl)
    ELSE IF data.tracks = "absent" THEN "TranscriptsDisabled"
    ELSE ""

\* TranscriptList.build, lines 379-385: the error it raises, "" if none
build(captions) == IF captions.tracks # "listed" THEN "TranscriptsDisabled" ELSE ""

\* VideoUnplayable carries the reason of the playability status
playabilityReason(data, isUrl) ==
    IF assertPlayability(data, isUrl) = "VideoUnplayable" THEN data.reason ELSE ""

\* TranscriptListFetcher.fetch on a data API answer: _extractCaptionsJson, then
\* TranscriptList.build; the error raised and what it carries
classify(data, isUrl) ==
    [name |-> IF extractCaptionsJson(data, isUrl) # ""
              THEN extractCaptionsJson(data, isUrl)
              ELSE build(data),
     reason |-> playabilityReason(data, isUrl)]

\* the error objects of errors.ts: the class, the pipeline step that raised
\* it, whether withProxyConfig was applied, and for a YouTubeRequestFailed the
\* status of the response that raiseHttpErrors puts into its reason
TranscriptError(name, step, annotated) ==
    [name |-> name, step |-> step, annotated |-> annotated,
     reason |-> IF name = "YouTubeRequestFailed" THEN ToString(response'[1]) ELSE ""]

\* an error leaves fetch() for its caller as it was raised
Raise(name, step) ==
    /\ tpc' = "failed"
    /\ terr' = Some(TranscriptError(name, step, FALSE))
    /\ UNCHANGED <<tryNumber, attempts>>

\* the catch block of _fetchCaptionsJson, lines 494-503
AttemptFail(name, step) ==
    IF IsRequestBlocked(name)
    THEN IF tryNumber + 1 < RetriesOf(proxyConfig)
         THEN /\ tryNumber' = tryNumber + 1
              /\ attempts' = attempts + 1
              /\ tpc' = "page"
              /\ terr' = Some(TranscriptError(name, step, FALSE))
         ELSE /\ tpc' = "failed"
              /\ terr' = Some(TranscriptError(name, step, TRUE))
              /\ UNCHANGED <<tryNumber, attempts>>
    ELSE Raise(name, step)

\* _fetchVideoHtml has its page: _extractInnertubeApiKey, then the POST
AfterPage(body) ==
    IF extractInnertubeApiKey(body) # ""
    THEN AttemptFail(extractInnertubeApiKey(body), "ExtractApiKey")
    ELSE /\ tpc' = "innertube"
         /\ UNCHANGED <<tryNumber, attempts, terr>>

\* HttpClient._request, lines 112-115: a request goes through the agent the
\* client was constructed with, and goes out directly when it has none
RouteOf(a) == a

ConsentRequiredNever(body) == FALSE

\* _fetchVideoHtml, lines 582 and 585: the body holds the consent form
ConsentRequired(body) == body.consent

\* _createConsentCookie, line 571: the cookie it stores
ConsentCookie == [name |-> "CONSENT", value |-> "YES+v", domain |-> ".youtube.com"]

\* the request the step leaves the pipeline waiting for: its route, the count
\* of watch page requests of the attempt, the API key the attempt holds
IssueRequest ==
    /\ via' = IF tpc' \in {"page", "page2", "innertube", "snippets"} THEN RouteOf(agent) ELSE via
    /\ pages' = IF tpc' = "page" THEN 1 ELSE IF tpc' = "page2" THEN pages + 1 ELSE pages
    /\ apiKey' = IF tpc' = "page" THEN Null
                 ELSE IF tpc' = "innertube" THEN Some("INNERTUBE_API_KEY")
                 ELSE apiKey

\* _fetchVideoHtml, lines 575 and 584: the body of a response that raised no
\* HTTP error is assigned to html
Assign(status, body) ==
    html' = IF raiseHttpErrors(status) = "" THEN Some(body) ELSE html

\* no watch page body is received
Keep == html' = html

\* api.fetch(videoId): list(), TranscriptListFetcher.fetch and the first
\* attempt of _fetchCaptionsJson up to the watch page GET
FetchBegin ==
    /\ tpc' = "page"
    /\ tryNumber' = 0
    /\ attempts' = 1
    /\ terr' = Null
    /\ html' = Null
    /\ captionsJson' = Null
    /\ track' = Null
    /\ IssueRequest

\* YouTubeTranscriptApi.fetch(videoId) is called: up to the watch page GET
FetchCall ==
    /\ tpc = "idle" /\ rpc = "idle"
    /\ FetchBegin
    /\ UNCHANGED <<tconfig, cookieJar, response, rotation>>
    /\ UNCHANGED <<config, library, pool, updatePromise, cacheFile, now, utask, caller>>

\* the watch page answers: _fetchHtml and _fetchVideoHtml, lines 575-588
PageResponse ==
    /\ tpc = "page"
    /\ \E status \in HttpStatuses, body \in PageBodies :
         /\ response' = Some(status)
         /\ IF raiseHttpErrors(status) # ""
            THEN AttemptFail(raiseHttpErrors(status), "FetchPage")
            ELSE IF ConsentRequired(body)
            THEN IF ~body.consentValue
                 THEN AttemptFail("FailedToCreateConsentCookie", "FetchPage")
                 ELSE /\ tpc' = "page2"
                      /\ UNCHANGED <<tryNumber, attempts, terr>>
            ELSE AfterPage(body)
         /\ cookieJar' = IF raiseHttpErrors(status) = "" /\ ConsentRequired(body) /\ body.consentValue
                         THEN Append(cookieJar, ConsentCookie)
                         ELSE cookieJar
         /\ Assign(status, body)
    /\ IssueRequest
    /\ UNCHANGED <<tconfig, catalog, rotation>>
    /\ UNCHANGED <<config, library, pool, updatePromise, cacheFile, now, utask, caller>>

\* the watch page refetched with the consent cookie answers: lines 583-588
ConsentResponse ==
    /\ tpc = "page2"
    /\ \E status \in HttpStatuses, body \in PageBodies :
         /\ response' = Some(status)
         /\ IF raiseHttpErrors(status) # ""
            THEN AttemptFail(raiseHttpErrors(status), "FetchPage")
            ELSE IF ConsentRequired(body)
            THEN AttemptFail("FailedToCreateConsentCookie", "FetchPage")
            ELSE AfterPage(body)
         /\ Assign(status, body)
    /\ IssueRequest
    /\ UNCHANGED <<tconfig, cookieJar, catalog, rotation>>
    /\ UNCHANGED <<config, library, pool, updatePromise, cacheFile, now, utask, caller>>

\* the data API answers: _fetchInnertubeData and _extractCaptionsJson, then,
\* outside the try block, TranscriptList.build, findTranscript and
\* Transcript.fetch up to the caption document GET
InnertubeResponse ==
    /\ tpc = "innertube"
    /\ \E status \in HttpStatuses, data \in InnertubeAnswers :
         /\ response' = Some(status)
         /\ IF raiseHttpErrors(status) # ""
            THEN AttemptFail(raiseHttpErrors(status), "FetchCaptionCatalog")
            ELSE IF extractCaptionsJson(data, videoIdIsUrl) # ""
            THEN AttemptFail(extractCaptionsJson(data, videoIdIsUrl), "FetchCaptionCatalog")
            ELSE IF build(data) # ""
            THEN Raise(build(data), "FetchCaptionCatalog")
            ELSE IF ~data.requested
            THEN Raise("NoTranscriptFound", "SelectTrack")
            ELSE IF data.poToken
            THEN Raise("PoTokenRequired", "FetchSnippets")
            ELSE /\ tpc' = "snippets"
                 /\ UNCHANGED <<tryNumber, attempts, terr>>
         /\ captionsJson' = IF raiseHttpErrors(status) = "" /\ extractCaptionsJson(data, videoIdIsUrl) = ""
                            THEN Some([status |-> data.status, tracks |-> data.tracks])
                            ELSE captionsJson
         /\ track' = IF raiseHttpErrors(status) = "" /\ extractCaptionsJson(data, videoIdIsUrl) = ""
                        /\ build(data) = "" /\ data.requested
                     THEN Some([poToken |-> data.poToken])
                     ELSE track
    /\ Keep
    /\ IssueRequest
    /\ UNCHANGED <<tconfig, cookieJar, rotation>>
    /\ UNCHANGED <<config, library, pool, updatePromise, cacheFile, now, utask, caller>>

\* the caption document answers: Transcript.fetch, lines 292-302
SnippetsResponse ==
    /\ tpc = "snippets"
    /\ \E status \in HttpStatuses :
         /\ response' = Some(status)
         /\ IF raiseHttpErrors(status) # ""
            THEN Raise(raiseHttpErrors(status), "FetchSnippets")
            ELSE /\ tpc' = "done"
                 /\ UNCHANGED <<tryNumber, attempts, terr>>
    /\ Keep
    /\ IssueRequest
    /\ UNCHANGED <<tconfig, cookieJar, catalog, rotation>>
    /\ UNCHANGED <<config, library, pool, updatePromise, cacheFile, now, utask, caller>>

\* ------------------------------------------ fetchTranscriptWithProxyRotation
\* PROXY_ROTATION_MAX_ATTEMPTS is not set
MAX_PROXY_ATTEMPTS == 3

RotationReturns == rpc' = "done"

\* lines 105-108: the loop is left without a transcript
RotationThrow == rpc' = "failed"

\* lines 80-84: the function is called, up to the first proxyRotation.get()
RotationStart ==
    /\ rpc = "idle" /\ tpc = "idle"
    /\ MayCall(1)
    /\ rpc' = "get"
    /\ attempt' = 0
    /\ lastError' = Null
    /\ GetBegin(1)
    /\ UNCHANGED <<config, library, transcript, pool, updatePromise, cacheFile, now, utask>>

\* proxyRotation.get() has settled: lines 84-95, up to the watch page GET of
\* the api.fetch() of this attempt
RotationGot ==
    /\ rpc = "get"
    /\ pc[1] \in {"done", "failed"}
    /\ IF pc[1] = "failed"
       THEN /\ lastError' = Some([name |-> err[1], step |-> "get", annotated |-> FALSE, reason |-> ""])
            /\ RotationThrow
            /\ UNCHANGED <<transcript>>
       ELSE IF result[1] = Null
       THEN /\ lastError' = Some([name |-> "TypeError", step |-> "get", annotated |-> FALSE, reason |-> ""])
            /\ RotationThrow
            /\ UNCHANGED <<transcript>>
       ELSE /\ proxyConfig' = Some(GenericProxyConfig(asString(result[1][1])))
            /\ agent' = Null
            /\ cookieJar' = <<>>
            /\ FetchBegin
            /\ rpc' = "fetch"
            /\ UNCHANGED <<videoIdIsUrl, response, lastError>>
    /\ UNCHANGED attempt
    /\ UNCHANGED <<config, library, pool, updatePromise, cacheFile, now, utask, caller>>

\* api.fetch() has settled: lines 95-103, and on a block the next iteration up
\* to its proxyRotation.get()
RotationFetched ==
    /\ rpc = "fetch"
    /\ tpc \in {"done", "failed"}
    /\ IF tpc = "done"
       THEN /\ rpc' = "done"
            /\ UNCHANGED <<attempt, lastError, caller>>
       ELSE /\ lastError' = terr
            /\ IF IsRequestBlocked(terr[1].name)
               THEN /\ attempt' = attempt + 1
                    /\ IF attempt + 1 < MAX_PROXY_ATTEMPTS
                       THEN rpc' = "get" /\ GetBegin(1)
                       ELSE RotationThrow /\ UNCHANGED caller
               ELSE /\ RotationThrow
                    /\ UNCHANGED <<attempt, caller>>
    /\ UNCHANGED <<config, library, transcript, pool, updatePromise, cacheFile, now, utask>>

\* SpecRotation: one fetchTranscriptWithProxyRotation over the pool the
\* application constructs, lines 39-48 of the same file, on an empty cache
\* folder
InitRotation ==
    /\ InitPoolOf({ShortSelection}, {<<>>})
    /\ protocol = "http" /\ autorotate /\ autoUpdate
    /\ maxProxies = MaxMaxProxies
    /\ cacheFile = Null
    /\ TranscriptIdle
    /\ RotationIdle
    /\ LibraryIdle

NextRotation ==
    \/ \E t \in {0, 1} : UpdateRead(t)
    \/ \E t \in {0, 1} : UpdateProvider(t)
    \/ \E t \in {0, 1} : UpdateWrite(t)
    \/ RotationStart
    \/ GetEnsure(1)
    \/ GetRotate(1)
    \/ GetAfterUpdate(1)
    \/ GetReturn(1)
    \/ RotationGot
    \/ PageResponse
    \/ ConsentResponse
    \/ InnertubeResponse
    \/ SnippetsResponse
    \/ RotationFetched
    \/ Tick

SpecRotation == InitRotation /\ [][NextRotation]_vars

\* SpecRotationFair: every pending promise settles (the cache read and write,
\* the provider calls, the answers to the requests) and every continuation
\* that is ready runs
SpecRotationFair == SpecRotation /\ WF_vars(NextRotation)

\* SpecTranscript: one fetch() through every proxy configuration, beside a
\* pool that is not in use
InitTranscript ==
    /\ InitPoolOf({<<>>}, {<<>>})
    /\ protocol = "http" /\ maxProxies = 1 /\ cachePeriod = 1
    /\ ~autorotate /\ ~autoUpdate
    /\ proxyList = <<>> /\ cacheFile = Null
    /\ proxyConfig \in ProxyConfigs
    /\ videoIdIsUrl \in BOOLEAN
    /\ agent \in {Null, Some("agent")}
    /\ tpc = "idle"
    /\ tryNumber = 0
    /\ attempts = 0
    /\ terr = Null
    /\ via = Null
    /\ cookieJar = <<>>
    /\ pages = 0
    /\ apiKey = Null
    /\ response = Null
    /\ html = Null
    /\ captionsJson = Null
    /\ track = Null
    /\ RotationIdle
    /\ LibraryIdle

NextTranscript ==
    \/ FetchCall
    \/ PageResponse
    \/ ConsentResponse
    \/ InnertubeResponse
    \/ SnippetsResponse

SpecTranscript == InitTranscript /\ [][NextTranscript]_vars

\* ---------------------------------------------------------- warm trigger
isAuthorizedAlways(secret, header) == TRUE

\* isAuthorized: no secret is configured, or the authorization header is the
\* bearer token of the secret
isAuthorized(secret, header) ==
    secret = Null \/ header = Some("Bearer " \o secret[1])

\* a request reaches handleWarm, up to its first await: the 401 answer, or
\* ensureWarm up to `await warmPromise`.  The callback of finally runs in a
\* microtask when the update settles, before a new request is handled.
WarmRequest(r) ==
    /\ wreq[r].pc = "idle"
    /\ \A q \in 1..NumRequests : q < r => wreq[q].pc # "idle"
    /\ ~(warmPromise # Null /\ Settled(warmPromise[1]))
    /\ \E secret \in {Null, Some("s")}, header \in {Null, Some("Bearer s"), Some("Bearer x")} :
         IF ~isAuthorized(secret, header)
         THEN /\ wreq' = [wreq EXCEPT ![r] = [pc |-> "401", secret |-> secret, header |-> header]]
              /\ UNCHANGED <<pool, utask, warmPromise, warmStarts>>
         ELSE IF warmPromise = Null
         THEN /\ UpdateBegin(1)
              /\ warmPromise' = Some(1)
              /\ warmStarts' = warmStarts + 1
              /\ wreq' = [wreq EXCEPT ![r] = [pc |-> "await", secret |-> secret,
                                              header |-> header, update |-> warmStarts + 1]]
         ELSE /\ wreq' = [wreq EXCEPT ![r] = [pc |-> "await", secret |-> secret,
                                              header |-> header, update |-> warmStarts]]
              /\ UNCHANGED <<pool, utask, warmPromise, warmStarts>>
    /\ UNCHANGED <<config, transcript, rotation, call, ret, workerPool, updatePromise, cacheFile, now, caller>>

\* the update() of the trigger has settled: the callback of finally clears
\* warmPromise, and the promise the requests await settles with the outcome
WarmFinally ==
    /\ warmPromise # Null /\ Settled(warmPromise[1])
    /\ warmPromise' = Null
    /\ wreq' = [r \in 1..NumRequests |->
                  IF wreq[r].pc = "await"
                  THEN [wreq[r] EXCEPT !.pc = IF upc[warmPromise[1]] = "ok" THEN "warmed" ELSE "threw"]
                  ELSE wreq[r]]
    /\ UNCHANGED warmStarts
    /\ UNCHANGED <<config, pool, updatePromise, cacheFile, now, utask, caller, transcript,
                   rotation, call, ret, workerPool>>

\* `await ensureWarm()` resumes in a request: the answer 200, after the export
\* of the list file if it is asked for and allowed, or the answer 500
WarmRespond(r) ==
    /\ wreq[r].pc \in {"warmed", "threw"}
    /\ \E shouldWrite \in BOOLEAN, exported \in BOOLEAN :
         wreq' = [wreq EXCEPT ![r].pc = IF wreq[r].pc = "threw" THEN "500"
                                        ELSE IF ~shouldWrite THEN "200"
                                        ELSE IF exported THEN "200 listWritten"
                                        ELSE "500"]
    /\ UNCHANGED <<warmPromise, warmStarts>>
    /\ UNCHANGED <<config, pool, updatePromise, cacheFile, now, utask, caller, transcript,
                   rotation, call, ret, workerPool>>

\* SpecWarm: the requests to the warm endpoint over the pool it constructs,
\* lines 13-21 of the same file, on an empty cache folder
InitWarm ==
    /\ InitPoolOf({ShortSelection}, {<<>>})
    /\ protocol = "http" /\ autorotate /\ ~autoUpdate
    /\ proxyList = <<>>
    /\ maxProxies = MaxMaxProxies
    /\ cacheFile = Null
    /\ TranscriptIdle
    /\ RotationIdle
    /\ LibraryIdle

NextWarm ==
    \/ \E r \in 1..NumRequests : WarmRequest(r)
    \/ UpdateRead(1)
    \/ UpdateProvider(1)
    \/ UpdateWrite(1)
    \/ WarmFinally
    \/ \E r \in 1..NumRequests : WarmRespond(r)
    \/ Tick

SpecWarm == InitWarm /\ [][NextWarm]_vars

\* ------------------------------------------------------- maxproxies setter
\* set maxproxies(value): maxProxies is assigned and nothing else
maxproxies(value) ==
    /\ value # maxProxies
    /\ maxProxies' = value
    /\ UNCHANGED <<protocol, countries, providers, autorotate, autoUpdate, cachePeriod,
                   proxyList, configString>>
    /\ UNCHANGED <<library, transcript, rotation, pool, updatePromise, cacheFile, now, utask, caller>>

\* SpecSetter: the pool of the warm endpoint, refreshed on request, whose owner
\* changes maxproxies between the refreshes
SpecSetter ==
    InitWarm /\ [][\/ \E r \in 1..NumRequests : WarmRequest(r)
                   \/ UpdateRead(1)
                   \/ UpdateProvider(1)
                   \/ UpdateWrite(1)
                   \/ WarmFinally
                   \/ \E r \in 1..NumRequests : WarmRespond(r)
                   \/ \E value \in 1..MaxMaxProxies : maxproxies(value)]_vars

\* ------------------------------------------------ functions on their own
\* every variable but the call and its result
parked == <<config, pool, updatePromise, cacheFile, now, utask, caller, transcript, rotation>>

\* a data API answer is classified
CallClassify ==
    /\ \E data \in InnertubeAnswers, isUrl \in BOOLEAN :
         /\ call' = [fn |-> "classify", data |-> data, isUrl |-> isUrl]
         /\ ret' = classify(data, isUrl)
    /\ UNCHANGED <<parked, workerPool, warm>>

\* language codes, and the lists of requested codes
LanguageCodes == {"en", "de"}

MaxCodes == 2

\* the Transcript stored under a language code in one of the two dictionaries
Transcript(languageCode, dict) ==
    [languageCode |-> languageCode, isGenerated |-> dict = "generated"]

\* _findTranscript, lines 436-442: the inner loop over the dictionaries
RECURSIVE LookupFrom(_, _, _, _)
LookupFrom(list, languageCode, transcriptDicts, k) ==
    IF k > Len(transcriptDicts) THEN Null
    ELSE IF languageCode \in list[transcriptDicts[k]]
         THEN Some(Transcript(languageCode, transcriptDicts[k]))
         ELSE LookupFrom(list, languageCode, transcriptDicts, k + 1)

\* _findTranscript, lines 436-445: the outer loop over the requested codes,
\* and the NoTranscriptFound thrown after it
RECURSIVE FindFrom(_, _, _, _)
FindFrom(list, languageCodes, transcriptDicts, i) ==
    IF i > Len(languageCodes)
    THEN [error |-> "NoTranscriptFound", requestedLanguageCodes |-> languageCodes,
          transcriptData |-> list]
    ELSE IF LookupFrom(list, languageCodes[i], transcriptDicts, 1) # Null
         THEN LookupFrom(list, languageCodes[i], transcriptDicts, 1)[1]
         ELSE FindFrom(list, languageCodes, transcriptDicts, i + 1)

findTranscriptGeneratedFirst(list, languageCodes) ==
    FindFrom(list, languageCodes, <<"generated", "manual">>, 1)

\* findTranscript, lines 420-425
findTranscript(list, languageCodes) ==
    FindFrom(list, languageCodes, <<"manual", "generated">>, 1)

\* findTranscript is called on a list, which holds the language codes of its
\* manually created and of its generated transcripts
CallFindTranscript ==
    /\ \E list \in [manual : SUBSET LanguageCodes, generated : SUBSET LanguageCodes],
          languageCodes \in UNION {[1..n -> LanguageCodes] : n \in 0..MaxCodes} :
         /\ call' = [fn |-> "findTranscript", list |-> list, languageCodes |-> languageCodes]
         /\ ret' = findTranscript(list, languageCodes)
    /\ UNCHANGED <<parked, workerPool, warm>>

\* the number parseFloat returns for a text that does not start with a number
NaN == -1

\* parseFloat on the attribute texts of the model
parseFloat(text) ==
    CASE text = "0" -> 0
      [] text = "2" -> 2
      [] OTHER -> NaN

\* parse, lines 628-629 and 636-637: the text captured by /start="([^"]+)"/ or
\* /dur="([^"]+)"/, '0' without a match; an attribute is absent or has a value
attributeOr0(value) == IF value # Null /\ value[1] # "" THEN value[1] ELSE "0"

MaxElements == 2

\* TranscriptParser.parse on the <text> elements of a document
parse(rawData) ==
    [i \in 1..Len(rawData) |->
        [start |-> parseFloat(attributeOr0(rawData[i].start)),
         duration |-> parseFloat(attributeOr0(rawData[i].dur))]]

\* parse is called on a document
CallParse ==
    /\ \E rawData \in UNION {[1..n -> [start : {Null, Some(""), Some("2"), Some("abc")},
                                         dur : {Null, Some(""), Some("2"), Some("abc")}]]
                                : n \in 0..MaxElements} :
         /\ call' = [fn |-> "parse", rawData |-> rawData]
         /\ ret' = parse(rawData)
    /\ UNCHANGED <<parked, workerPool, warm>>

MaxListLen == 3

\* deduplicateProxies is called on a list of proxies
CallDeduplicateProxies ==
    /\ \E list \in UNION {[1..n -> {Proxy(ip, prot) : ip \in 1..MaxIp, prot \in ProxyProtocol}]
                             : n \in 0..MaxListLen} :
         /\ call' = [fn |-> "deduplicateProxies", list |-> list]
         /\ ret' = deduplicateProxies(list)
    /\ UNCHANGED <<parked, workerPool, warm>>

\* what the probe of a candidate through a checker comes to: an error or
\* timeout, or a response text with or without an IPv4 address in it
ProbeOutcomes ==
    {[completed |-> FALSE, ip |-> Null]}
    \cup {[completed |-> TRUE, ip |-> a] : a \in {Null} \cup {Some(i) : i \in 1..MaxIp}}

validateProxiesAnyAddress(list, hostIp, probes) ==
    LET keep(i) == probes[i].completed /\ probes[i].ip # Null
        RECURSIVE filter(_)
        filter(i) == IF i > Len(list) THEN <<>>
                     ELSE IF keep(i) THEN <<list[i]>> \o filter(i + 1)
                     ELSE filter(i + 1)
    IN  filter(1)

\* validateProxies: the task of every candidate returns the proxy if its
\* probe completed with an address other than hostIp and null otherwise, and
\* the results are filtered in the order of the candidates
validateProxies(list, hostIp, probes) ==
    LET keep(i) == probes[i].completed /\ probes[i].ip # Null /\ probes[i].ip # hostIp
        RECURSIVE filter(_)
        filter(i) == IF i > Len(list) THEN <<>>
                     ELSE IF keep(i) THEN <<list[i]>> \o filter(i + 1)
                     ELSE filter(i + 1)
    IN  filter(1)

MaxCandidates == 2

\* validateProxies is called on a list; getHostIp gives the caller's address
\* or null
CallValidateProxies ==
    /\ \E n \in 0..MaxCandidates, hostIp \in {Null, Some(1)} :
         \E probes \in [1..n -> ProbeOutcomes] :
            /\ call' = [fn |-> "validateProxies", list |-> [i \in 1..n |-> Proxy(i, "http")],
                        hostIp |-> hostIp, probes |-> probes]
            /\ ret' = validateProxies([i \in 1..n |-> Proxy(i, "http")], hostIp, probes)
    /\ UNCHANGED <<parked, workerPool, warm>>

\* ------------------------------------------------------ runWithConcurrency
MaxItems == 4

MaxLimit == 3

WidthOfItems(lim, n) == n

\* Math.min(limit, tasks.length): the number of workers
Width(lim, n) == IF lim < n THEN lim ELSE n

\* the loop body up to the await, for the workers of the set ws one after the
\* other: each takes workerNextIndex and increments it, and either leaves the loop
\* or starts the task of its index
RECURSIVE ClaimAll(_, _, _, _, _)
ClaimAll(ws, n, next, pos, log) ==
    IF ws = {} THEN [nextIndex |-> next, wpos |-> pos, wlog |-> log]
    ELSE LET w == CHOOSE x \in ws : \A y \in ws : x <= y
         IN  IF next >= n
             THEN ClaimAll(ws \ {w}, n, next + 1,
                           [pos EXCEPT ![w] = [pc |-> "done", currentIndex |-> next]], log)
             ELSE ClaimAll(ws \ {w}, n, next + 1,
                           [pos EXCEPT ![w] = [pc |-> "run", currentIndex |-> next]],
                           [log EXCEPT ![next + 1].runs = @ + 1])

\* runWithConcurrency(tasks, limit) is called: the results array, and every
\* worker up to its first await
PoolStart ==
    /\ poolpc = "idle"
    /\ \E n \in 0..MaxItems, lim \in 1..MaxLimit :
         /\ items' = n
         /\ limit' = lim
         /\ results' = [i \in 1..n |-> [set |-> FALSE, value |-> Null]]
         /\ LET claimed == ClaimAll(1..Width(lim, n), n, 0,
                                     [w \in 1..Width(lim, n) |-> [pc |-> "new", currentIndex |-> 0]],
                                     [i \in 1..n |-> [runs |-> 0, writes |-> 0, failed |-> FALSE]])
            IN  /\ workerNextIndex' = claimed.nextIndex
                /\ wpos' = claimed.wpos
                /\ wlog' = claimed.wlog
    /\ poolpc' = "running"
    /\ UNCHANGED <<parked, call, ret, warm>>

\* the task a worker awaits settles: the slot of its index is written, and the
\* worker goes round its loop up to the next await
TaskSettles(w) ==
    /\ w \in DOMAIN wpos /\ wpos[w].pc = "run"
    /\ \E ok \in BOOLEAN :
         LET i == wpos[w].currentIndex + 1
             claimed == ClaimAll({w}, items, workerNextIndex, wpos,
                                 [wlog EXCEPT ![i].writes = @ + 1, ![i].failed = ~ok])
         IN  /\ results' = [results EXCEPT ![i] =
                               [set |-> TRUE, value |-> IF ok THEN Some(i - 1) ELSE Null]]
             /\ workerNextIndex' = claimed.nextIndex
             /\ wpos' = claimed.wpos
             /\ wlog' = claimed.wlog
    /\ UNCHANGED <<items, limit, poolpc>>
    /\ UNCHANGED <<parked, call, ret, warm>>

\* every worker has left its loop: Promise.all resolves and results is returned
PoolReturn ==
    /\ poolpc = "running"
    /\ \A w \in DOMAIN wpos : wpos[w].pc = "done"
    /\ poolpc' = "returned"
    /\ UNCHANGED <<items, limit, workerNextIndex, results, wpos, wlog>>
    /\ UNCHANGED <<parked, call, ret, warm>>

\* SpecWorkers: one call of runWithConcurrency over every number of tasks and
\* every limit of the bounded domain, every task succeeding or failing
NextWorkers ==
    \/ PoolStart
    \/ \E w \in 1..MaxLimit : TaskSettles(w)
    \/ PoolReturn

\* ------------------------------------------------------- CookieJar.getHeader
\* the host names and cookie domains of the model, cut in pieces no finer
\* than their dots
Pieces ==
    [h \in {"", ".youtube.com", "youtube.com", "www.youtube.com", "notyoutube.com", "example.com"} |->
        CASE h = "" -> <<>>
          [] h = ".youtube.com" -> <<".", "youtube", ".", "com">>
          [] h = "youtube.com" -> <<"youtube", ".", "com">>
          [] h = "www.youtube.com" -> <<"www", ".", "youtube", ".", "com">>
          [] h = "notyoutube.com" -> <<"not", "youtube", ".", "com">>
          [] h = "example.com" -> <<"example", ".", "com">>]

\* getHeader, lines 17-33: the cookies whose domain is not empty and is the
\* host or, its leading dot removed, an ending of the host, as name=value in
\* the order they were stored (joined by "; ")
getHeader(cookies, host) ==
    LET stripped(d) == IF Len(Pieces[d]) > 0 /\ Pieces[d][1] = "." THEN Tail(Pieces[d]) ELSE Pieces[d]
        endsWith(h, suffix) ==
            /\ Len(suffix) <= Len(Pieces[h])
            /\ SubSeq(Pieces[h], Len(Pieces[h]) - Len(suffix) + 1, Len(Pieces[h])) = suffix
        matches(cookie) ==
            /\ cookie.domain # ""
            /\ (host = cookie.domain \/ endsWith(host, stripped(cookie.domain)))
        matching == SelectSeq(cookies, matches)
    IN  [i \in 1..Len(matching) |-> matching[i].name \o "=" \o matching[i].value]

CallGetHeader ==
    /\ \E host \in DOMAIN Pieces \ {"", ".youtube.com"},
          jar \in UNION {[1..n -> {[name |-> nm, value |-> "1", domain |-> d] :
                                      nm \in {"CONSENT", "PREF"},
                                      d \in {"", ".youtube.com", "youtube.com", "www.youtube.com"}}]
                            : n \in 0..MaxCookies} :
         /\ call' = [fn |-> "getHeader", cookies |-> jar, host |-> host]
         /\ ret' = getHeader(jar, host)
    /\ UNCHANGED <<parked, workerPool, warm>>

\* SpecLibrary: the functions of the libraries applied to every input of
\* their bounded domains, beside a pool and a pipeline that are not in use
InitLibrary ==
    /\ InitPoolOf({<<>>}, {<<>>})
    /\ protocol = "http" /\ maxProxies = 1 /\ cachePeriod = 1
    /\ ~autorotate /\ ~autoUpdate
    /\ proxyList = <<>> /\ cacheFile = Null
    /\ TranscriptIdle
    /\ RotationIdle
    /\ LibraryIdle

NextLibrary ==
    \/ CallClassify
    \/ CallFindTranscript
    \/ CallParse
    \/ CallDeduplicateProxies
    \/ CallValidateProxies
    \/ CallGetHeader

SpecLibrary == InitLibrary /\ [][NextLibrary]_vars

\* --------------------------------------------------------- extractVideoId
YOUTUBE_HOSTS == {"youtube.com", "www.youtube.com", "m.youtube.com", "youtu.be", "www.youtu.be"}

\* the texts that stand in a path segment, in the parameter v or alone: an
\* id, the words of the URL shapes, a text of ten characters and a text of
\* eleven with a character outside the class
Texts == {"dQw4w9WgXcQ", "watch", "shorts", "embed", "live", "playlist",
          "dQw4w9WgXc", "dQw4w9Wg.cQ"}

\* VIDEO_ID_REGEX.test: eleven characters of the class [a-zA-Z0-9_-]
VIDEO_ID_REGEX(text) == Len(text) = 11 /\ text # "dQw4w9Wg.cQ"

\* extractVideoId on a trimmed input: the empty text, a text that is no URL,
\* or a URL given by its hostname, the segments of its pathname that are not
\* empty, and its parameter v
extractVideoId(input) ==
    IF input.kind = "text"
    THEN IF input.text # "" /\ VIDEO_ID_REGEX(input.text) THEN Some(input.text) ELSE Null
    ELSE IF input.hostname \notin YOUTUBE_HOSTS THEN Null
    ELSE IF input.hostname = "youtu.be"
    THEN IF Len(input.pathname) > 0 /\ VIDEO_ID_REGEX(input.pathname[1])
         THEN Some(input.pathname[1]) ELSE Null
    ELSE IF input.v # Null /\ VIDEO_ID_REGEX(input.v[1]) THEN input.v
    ELSE LET at == {i \in 1..(Len(input.pathname) - 1) :
                       input.pathname[i] \in {"shorts", "embed", "live"}}
         IN  IF at = {} THEN Null
             ELSE LET i == CHOOSE x \in at : \A y \in at : x <= y
                  IN  IF VIDEO_ID_REGEX(input.pathname[i + 1])
                      THEN Some(input.pathname[i + 1]) ELSE Null

CallExtractVideoId ==
    /\ \E input \in {[kind |-> "text", text |-> t] : t \in Texts \cup {""}}
                  \cup {[kind |-> "url", hostname |-> h, pathname |-> segments, v |-> v] :
                          h \in YOUTUBE_HOSTS \cup {"example.com"},
                          segments \in UNION {[1..n -> Texts] : n \in 0..MaxSegments},
                          v \in {Null} \cup {Some(t) : t \in {"dQw4w9WgXcQ", "dQw4w9WgXc"}}} :
         /\ call' = [fn |-> "extractVideoId", input |-> input]
         /\ ret' = extractVideoId(input)
    /\ UNCHANGED <<parked, workerPool, warm>>

\* SpecVideoId: extractVideoId applied to every input of its bounded domain
SpecVideoId == InitLibrary /\ [][CallExtractVideoId]_vars

SpecWorkers == InitLibrary /\ [][NextWorkers]_vars

\* ---------------------------------------------------------------- claims
Resolved(c) == pc[c] \in {"done", "failed"}

Quiescent == (\A t \in Tasks : ~InFlight(t)) /\ (\A c \in Callers : pc[c] \in {"idle", "done", "failed"})

\* C1: while the refresh the constructor started is in flight, no get() has
\* resolved: neither returned a proxy nor failed.
C1_GetAwaitsInitialRefresh ==
    \A c \in Callers : (op[c] = "get" /\ Resolved(c)) => ~InFlight(0)

\* a get() issued while the constructor's refresh was in flight returned a proxy
C1_Witness ==
    \E c \in Callers :
        op[c] = "get" /\ issuedPending[c] /\ pc[c] = "done" /\ result[c] # Null

\* C2 as stated: a get() issued while the constructor's refresh is pending
\* starts no refresh of its own.
C2_Original ==
    \A c \in Callers : (op[c] = "get" /\ issuedPending[c]) => startedUpdate[c] = Null

\* C2 as amended: every get() issued while the constructor's refresh is pending
\* stays in ensureUpdated() until that refresh has settled, and starts a refresh
\* of its own only afterwards, in rotate(), on a pool with autoRotate and
\* autoUpdate whose refresh succeeded and whose cache expiry has passed.
C2_PendingGetsAwaitOneRefresh ==
    \A c \in Callers : (op[c] = "get" /\ issuedPending[c]) =>
        /\ (pc[c] # "ensure" => ~InFlight(0))
        /\ (startedUpdate[c] # Null =>
              /\ autorotate /\ autoUpdate
              /\ startedUpdate[c][1].refresh = "ok"
              /\ startedUpdate[c][1].expiry <= startedUpdate[c][1].at)

\* two get() calls issued while the constructor's refresh was pending both
\* returned a proxy
C2_Witness ==
    \E c, d \in Callers :
        /\ c # d
        /\ op[c] = "get" /\ issuedPending[c] /\ pc[c] = "done"
        /\ op[d] = "get" /\ issuedPending[d] /\ pc[d] = "done"

\* C3: once a get() has resolved (it awaited the pending refresh to its end,
\* successful or failed), the pending-refresh reference is cleared.
C3_ReferenceClearedAfterRefresh ==
    \A c \in Callers : (op[c] = "get" /\ Resolved(c)) => ~updatePromise

\* C4: on a pool with autoRotate and autoUpdate, no get() fails in rotate()
\* while the refresh another get() started is in flight, and at most one
\* refresh started by a get() is in flight at a time.
C4_ConcurrentGetsShareRefresh ==
    [][(autorotate /\ autoUpdate) =>
        /\ \A c \in Callers :
              (op[c] = "get" /\ pc[c] = "rotate" /\ pc'[c] = "failed") =>
                  ~(\E d \in Callers \ {c} :
                        op[d] = "get" /\ pc[d] = "updating" /\ InFlight(d))
        /\ Cardinality({c \in Callers :
              op'[c] = "get" /\ pc'[c] = "updating" /\ upc'[c] \in {"read", "prov", "write"}}) <= 1]_vars

\* C5: whenever no call is in progress, current is null exactly if proxies is
\* empty, and otherwise is an element of proxies.
C5_CurrentTracksProxies ==
    Quiescent =>
        /\ (current = Null <=> proxies = <<>>)
        /\ (current # Null => current[1] \in Range(proxies))

\* C6: an update() that completes successfully leaves at most maxProxies
\* proxies in the pool.
C6_SizeAtMostMax ==
    [][\A t \in Tasks :
        (upc[t] # "ok" /\ upc'[t] = "ok") => Len(proxies') <= maxProxies]_vars

\* C7: once an update() has completed successfully, every proxy in the pool
\* has the pool's protocol.
C7_PoolSharesProtocol ==
    (\E t \in Tasks : upc[t] = "ok") =>
        \A i \in 1..Len(proxies) : proxies[i].protocol = protocol

\* an https pool was populated by a provider sweep
C7_Witness ==
    \E t \in Tasks :
        upc[t] = "ok" /\ path[t] = "sweep" /\ protocol = "https" /\ Len(proxies) > 0

\* C8: a step in which update() populates the pool from the cache record is
\* taken only when the record's configString equals the pool's and the time is
\* strictly before the record's expiry; the pool then holds the record's list.
C8_CacheOnlyIfTrusted ==
    [][\A t \in Tasks :
        (path[t] # "cache" /\ path'[t] = "cache") =>
            /\ cacheFile # Null
            /\ cacheFile[1].configString = ConfigStringOf(maxProxies, protocol, countries)
            /\ cacheFile[1].expiryIn # InvalidDate
            /\ now < cacheFile[1].expiryIn
            /\ proxies' = cacheFile[1].proxies]_vars

\* an update() populated the pool from the cache record
C8_Witness ==
    \E t \in Tasks : path[t] = "cache" /\ upc[t] = "ok" /\ proxies = cacheFile[1].proxies

\* C9: an update() that takes the static-list path completes at once (it never
\* reads the cache, calls a provider or writes the cache), leaves the pool
\* holding the deduplicated protocol-filtered static list truncated to
\* maxProxies and cacheExpiry null, and current is its first member until a
\* rotate() reselects among the members.
C9_StaticListShortCircuit ==
    \A t \in Tasks : path[t] = "static" =>
        LET expected == Take(deduplicateProxies(
                            SelectSeq(proxyList, LAMBDA p : p.protocol = protocol)), maxProxies)
        IN /\ upc[t] = "ok" /\ uidx[t] = 0 /\ wbuf[t] = Null
           /\ Len(expected) > 0
           /\ proxies = expected
           /\ cacheExpiry = Null
           /\ current # Null /\ current[1] \in Range(expected)
           /\ ((\A c \in Callers :
                    /\ ~(autorotate /\ op[c] = "get" /\ pc[c] \in {"ret", "done"})
                    /\ ~(op[c] = "rotate" /\ pc[c] = "done"))
                  => current = Some(expected[1]))

\* an update() took the static-list path on a list holding both protocols and
\* more proxies of the pool's protocol than maxProxies
C9_Witness ==
    \E c \in Callers :
        /\ path[c] = "static" /\ op[c] = "update" /\ pc[c] = "done"
        /\ Len(proxyList) > Len(StaticFiltered)
        /\ Len(deduplicateProxies(StaticFiltered)) > maxProxies

\* C10: every provider call in flight, of a refresh or of QuickProxy, is to a
\* provider whose declared protocols include the requested protocol and which,
\* when the country filter is non-empty, declares country-filter support.
C10_ProvidersWithinCapability ==
    \A t \in Tasks :
        /\ upc[t] = "prov" =>
              /\ protocol \in Providers[providers[uidx[t]]].protocols
              /\ (Len(countries) > 0 => Providers[providers[uidx[t]]].countryFilter)
        /\ (t \in Callers /\ pc[t] = "quick") =>
              /\ qargs[t][1].protocol \in Providers[AllProviders[uidx[t]]].protocols
              /\ (Len(qargs[t][1].countries) > 0 => Providers[AllProviders[uidx[t]]].countryFilter)

\* a refresh with a country filter and a QuickProxy call for https each have a
\* provider call in flight
C10_Witness ==
    /\ upc[0] = "prov" /\ Len(countries) > 0
    /\ \E c \in Callers : pc[c] = "quick" /\ qargs[c][1].protocol = "https"

\* the provider at position j of the pool's provider list declares the pool's
\* protocol and, when the pool filters by country, country-filter support
Capable(j) ==
    /\ protocol \in Providers[providers[j]].protocols
    /\ (Len(countries) > 0 => Providers[providers[j]].countryFilter)

\* C11: a sweep invokes a provider only while the pool holds fewer than
\* maxProxies proxies, and the provider it invokes is the first capable one
\* after the provider it invoked before (the first capable one of the list
\* when the sweep starts): one at a time, in registration order.
C11_SweepInOrderUntilFull ==
    [][\A t \in Tasks :
        (upc'[t] = "prov" /\ (upc[t] # "prov" \/ uidx'[t] # uidx[t])) =>
            /\ uidx'[t] > uidx[t]
            /\ Capable(uidx'[t])
            /\ \A j \in (uidx[t] + 1)..(uidx'[t] - 1) : ~Capable(j)
            /\ Len(proxies') < maxProxies]_vars

\* a sweep invoked at least two providers and stopped, the pool full, before a
\* later capable provider was invoked
C11_Witness ==
    \E t \in Tasks :
        /\ path[t] = "sweep" /\ upc[t] = "write"
        /\ Len(wbuf[t][1].proxies) >= maxProxies
        /\ \E i \in 1..(uidx[t] - 1) : Capable(i)
        /\ \E j \in (uidx[t] + 1)..Len(providers) : Capable(j)

\* C12: an update() never completes successfully leaving the pool empty, and a
\* sweep that ends with no proxy obtained fails with the no-proxies-found
\* error, which carries the https hint exactly when the protocol is https.
C12_EmptySweepFails ==
    [][\A t \in Tasks :
        /\ (upc[t] # "ok" /\ upc'[t] = "ok") => Len(proxies') > 0
        /\ (upc[t] \in {"read", "prov"} /\ path'[t] = "sweep" /\ upc'[t] \in {"write", "err"}
               /\ uerr'[t] # RequestFailed /\ Len(proxies') = 0) =>
              /\ upc'[t] = "err"
              /\ uerr'[t] = IF protocol = "https"
                            THEN "No proxies were found for the current filter settings. Tip: https proxies can be rare; recommend setting protocol to http"
                            ELSE "No proxies were found for the current filter settings."]_vars

\* C13: an update() fails only in aggregate: every step in which an update()
\* fails is the end of a sweep that left the pool empty, and the error is the
\* no-proxies-found error, never the failure of one provider's request.
C13_FailureOnlyInAggregate ==
    [][\A t \in Tasks :
        (upc[t] # "err" /\ upc'[t] = "err") =>
            /\ Len(proxies') = 0
            /\ uerr'[t] \in {"No proxies were found for the current filter settings.",
                             "No proxies were found for the current filter settings. Tip: https proxies can be rare; recommend setting protocol to http"}]_vars

\* no two proxies of the list have the same address string
NoDuplicates(list) ==
    \A i, j \in 1..Len(list) : asString(list[i]) = asString(list[j]) => i = j

\* C14: a sweep that ends successfully at time `now` hands to the cache write
\* a record of the pool's list, free of duplicates, the pool's fingerprint and
\* the expiry now + cachePeriod; a successful write makes it the cache file;
\* and an update() that finds a record with the pool's fingerprint before its
\* expiry completes with exactly the record's list, no provider invoked.
C14_CacheRoundTrip ==
    [][\A t \in Tasks :
        /\ (upc[t] \in {"read", "prov"} /\ upc'[t] = "write") =>
              /\ NoDuplicates(proxies')
              /\ wbuf'[t] = Some([expiryIn |-> now + cachePeriod,
                                  configString |-> ConfigStringOf(maxProxies, protocol, countries),
                                  proxies |-> proxies'])
        /\ (upc[t] = "write" /\ upc'[t] = "ok") => cacheFile' = wbuf[t]
        /\ (upc[t] = "read" /\ upc'[t] # "read" /\ cacheFile # Null
               /\ cacheFile[1].configString = ConfigStringOf(maxProxies, protocol, countries)
               /\ cacheFile[1].expiryIn # InvalidDate /\ now < cacheFile[1].expiryIn) =>
              /\ proxies' = cacheFile[1].proxies
              /\ upc'[t] = "ok" /\ uidx'[t] = 0]_vars

\* the constructor's refresh swept the providers and wrote the cache file, and
\* a later update() populated the pool from that file
C14_Witness ==
    /\ path[0] = "sweep" /\ upc[0] = "ok"
    /\ path[1] = "cache" /\ upc[1] = "ok"
    /\ proxies = cacheFile[1].proxies

\* C15: the pool's fingerprint equals the fingerprint of a configuration
\* exactly if that configuration has the pool's max size, its protocol and the
\* same set of countries, in whatever order they were given.
C15_FingerprintOfSortedCountries ==
    \A m \in 1..(MaxMaxProxies + 1), p \in ProxyProtocol, cin \in CountryInputs \cup CountryOrders :
        (configString = ConfigStringOf(m, p, normalizeCountries(cin)))
            <=> (m = maxProxies /\ p = protocol
                    /\ Range(normalizeCountries(cin)) = Range(countries))

\* C16: the step of a client's rotate() that reselects (at the call, or after
\* the refresh it awaited has succeeded) sets current to a member of a pool of
\* one or more proxies and returns, leaving proxies unchanged; on an empty
\* pool it fails with an error and changes neither the pool nor the cache.
C16_RotateSelectsMember ==
    [][\A c \in Callers :
        (op'[c] = "rotate" /\ pc[c] \in {"idle", "updating"} /\ pc'[c] \in {"done", "failed"}
            /\ ~(pc[c] = "updating" /\ upc[c] = "err")) =>
            IF Len(proxies) >= 1
            THEN /\ pc'[c] = "done"
                 /\ current' # Null /\ current'[1] \in Range(proxies)
                 /\ proxies' = proxies
            ELSE /\ pc'[c] = "failed" /\ err'[c] # ""
                 /\ UNCHANGED <<pool, cacheFile, config>>]_vars

\* a client's rotate() on a pool of two proxies returned, current not the first
C16_Witness ==
    \E c \in Callers :
        /\ op[c] = "rotate" /\ pc[c] = "done"
        /\ Len(proxies) = 2 /\ current = Some(proxies[2])

\* C17: a rotate with validateCache true (a client's rotate({validateCache:
\* true}), or the rotate of a get() on a pool with autoRotate and autoUpdate)
\* starts a refresh exactly if the pool has a cache expiry and the time has
\* reached it; with no cache expiry and an empty pool it fails with the
\* no-cache error and changes nothing.
C17_RefreshOnlyIfExpired ==
    [][\A c \in Callers :
        (\/ (pc[c] = "idle" /\ op'[c] = "rotate" /\ qargs'[c][1].validateCache)
         \/ (op[c] = "get" /\ pc[c] = "rotate" /\ pc'[c] # "rotate" /\ autorotate /\ autoUpdate)) =>
            /\ (pc'[c] = "updating" /\ upc'[c] # "none")
                    <=> (cacheExpiry # Null /\ now >= cacheExpiry[1])
            /\ (cacheExpiry = Null /\ Len(proxies) = 0) =>
                    /\ pc'[c] = "failed"
                    /\ err'[c] = "No cache available but validateCache is true."
                    /\ UNCHANGED <<pool, cacheFile, utask>>]_vars

\* a client's rotate({validateCache: true}) found the cache expired, awaited
\* the refresh it started and returned
C17_Witness ==
    \E c \in Callers :
        /\ op[c] = "rotate" /\ qargs[c] # Null /\ qargs[c][1].validateCache
        /\ upc[c] = "ok" /\ pc[c] = "done"

\* C18: when fetch() fails because every attempt was blocked and the budget is
\* used up, the scrape sequence has been attempted once and retried
\* retriesWhenBlocked times: 1 + R attempts, one attempt with no proxy
\* configuration or R = 0.
C18_RetriedExactlyBudget ==
    (tpc = "failed" /\ terr[1].annotated) => attempts = 1 + RetriesOf(proxyConfig)

\* C19: an attempt is started anew only after a RequestBlocked or IpBlocked;
\* any other error an attempt raises ends fetch() in the step that raises it,
\* whatever budget remains, and reaches the caller as it was raised.
C19_OnlyBlocksRetried ==
    [][/\ (attempts >= 1 /\ attempts' = attempts + 1) =>
              terr'[1].name \in {"RequestBlocked", "IpBlocked"}
       /\ (terr' # terr /\ terr'[1].name \notin {"RequestBlocked", "IpBlocked"}) =>
              /\ tpc' = "failed"
              /\ ~terr'[1].annotated
              /\ attempts' = attempts]_vars

\* after a blocked attempt was retried, a second attempt raised an error that
\* is not a block and fetch() failed with budget left
C19_Witness ==
    /\ tpc = "failed" /\ attempts = 2 /\ RetriesOf(proxyConfig) = 3
    /\ terr[1].name = "AgeRestricted"

\* C20: a block error reaches the caller of fetch() only when the retry budget
\* is used up, at whichever step it was raised.
C20_BlocksRetriedAtEveryStep ==
    (tpc = "failed" /\ terr[1].name \in {"RequestBlocked", "IpBlocked"}) =>
        attempts >= RetriesOf(proxyConfig)

\* C21: in fetchTranscriptWithProxyRotation, while an attempt waits for the
\* answer to one of its requests, that request went through the proxy that the
\* pool returned for the attempt.
C21_AttemptGoesThroughPoolProxy ==
    (rpc = "fetch" /\ tpc \in {"page", "page2", "innertube", "snippets"})
        => (result[1] # Null /\ via = Some(asString(result[1][1])))

\* C22: a fetch() that has failed with a block error, no retry being left,
\* carries the hint of the active proxy configuration: the Webshare hint for a
\* Webshare configuration, the generic-proxy hint for a generic one, the
\* default hint without a configuration.
C22_BlockErrorCarriesConfigHint ==
    (tpc = "failed" /\ IsRequestBlocked(terr[1].name)
        /\ ~(tryNumber + 1 < RetriesOf(proxyConfig)))
        => causeMessage(terr[1]) =
              (IF proxyConfig = Null THEN "CAUSE_MESSAGE"
               ELSE IF proxyConfig[1].kind = "webshare" THEN "WITH_WEBSHARE_PROXY_CAUSE_MESSAGE"
               ELSE "WITH_GENERIC_PROXY_CAUSE_MESSAGE")

\* C23: whenever a response to the watch page GET, the data API POST or the
\* caption document GET is handled, a status of 429 raises IpBlocked whatever
\* the body, any other status outside 200..299 raises YouTubeRequestFailed
\* carrying the status, and a status in 200..299 raises no YouTubeRequestFailed
\* and no IpBlocked other than the one of a watch page without an API key.
C23_StatusClassifiedAtEveryStep ==
    [][(tpc \in {"page", "page2", "innertube", "snippets"} /\ response' # Null
            /\ (tpc' = "failed" \/ attempts' # attempts \/ tpc' # tpc))
        => LET status == response'[1]
               raised == tpc' = "failed" \/ attempts' # attempts
           IN  /\ status = 429 => (raised /\ terr'[1].name = "IpBlocked")
               /\ (status # 429 /\ ~(status \in 200..299))
                     => (raised /\ terr'[1].name = "YouTubeRequestFailed"
                            /\ terr'[1].reason = ToString(status))
               /\ (status \in 200..299 /\ raised)
                     => /\ terr'[1].name # "YouTubeRequestFailed"
                        /\ terr'[1].name = "IpBlocked" => tpc \in {"page", "page2"}]_vars

\* the caption document GET was answered 429 and fetch() failed with IpBlocked
C23_Witness ==
    /\ tpc = "failed" /\ response = Some(429)
    /\ terr[1].name = "IpBlocked" /\ terr[1].step = "FetchSnippets"

\* C24: an attempt requests the watch page at most twice.  When the first body
\* holds the consent form and a cookie value, a CONSENT cookie for .youtube.com
\* is stored and the page is requested once more; without a cookie value, or
\* when the second body holds the form again, the attempt ends with
\* FailedToCreateConsentCookie and is not retried; a cookie is stored and a
\* second request is sent only after a first body with the form.
C24_ConsentRefetchedOnce ==
    [][LET ok == response' # Null /\ response'[1] \in 200..299
           failedConsent == tpc' = "failed" /\ attempts' = attempts
                               /\ terr'[1].name = "FailedToCreateConsentCookie"
           stored == cookieJar' # cookieJar
           form == html' # Null /\ html'[1].consent
       IN  /\ pages' <= 2
           /\ (tpc = "page" /\ transcript' # transcript /\ rpc' = rpc) =>
                 /\ stored => (cookieJar' = Append(cookieJar, ConsentCookie)
                                  /\ ConsentCookie.name = "CONSENT"
                                  /\ ConsentCookie.domain = ".youtube.com")
                 /\ (stored <=> tpc' = "page2")
                 /\ tpc' = "page2" => (ok /\ form /\ html'[1].consentValue /\ pages' = 2)
                 /\ (ok /\ form /\ html'[1].consentValue) => tpc' = "page2"
                 /\ (ok /\ form /\ ~html'[1].consentValue) => failedConsent
           /\ (tpc = "page2" /\ transcript' # transcript /\ rpc' = rpc) =>
                 /\ ~stored /\ tpc' # "page2"
                 /\ (ok /\ form) => failedConsent]_vars

\* the refetched watch page showed the consent form again
C24_Witness ==
    /\ tpc = "failed" /\ pages = 2 /\ cookieJar = <<ConsentCookie>>
    /\ terr[1].name = "FailedToCreateConsentCookie"
    /\ html # Null /\ html[1].consent /\ response = Some(200)

\* C25: the steps of fetch() follow one another in the order FetchPage,
\* ExtractApiKey, FetchCaptionCatalog, SelectTrack, FetchSnippets.  The data
\* API POST is sent only from the watch page step, with a key taken from the
\* body held by the same attempt; a track is selected only from captions JSON
\* whose playability status is OK or absent and that lists caption tracks; the
\* caption document is requested only from the data API step and for a
\* selected track; fetch() returns only after the caption document.
C25_StepsInOrder ==
    [][/\ (tpc = "idle" /\ tpc' # tpc) => tpc' = "page"
       /\ (tpc' = "page2" /\ tpc' # tpc) => tpc = "page"
       /\ (tpc' = "innertube" /\ tpc' # tpc) =>
             /\ tpc \in {"page", "page2"}
             /\ attempts' = attempts
             /\ html' # Null /\ html'[1].key
             /\ apiKey' # Null
       /\ (track' # Null /\ track' # track) =>
             /\ tpc = "innertube"
             /\ captionsJson' # Null
             /\ captionsJson'[1].status \in {"", "OK"}
             /\ captionsJson'[1].tracks = "listed"
       /\ (tpc' = "snippets" /\ tpc' # tpc) =>
             /\ tpc = "innertube"
             /\ track' # Null
       /\ (tpc' = "done" /\ tpc' # tpc) => tpc = "snippets"]_vars

\* fetch() returned a transcript
C25_Witness ==
    tpc = "done" /\ apiKey # Null /\ captionsJson # Null /\ track # Null /\ response = Some(200)

\* C26: when a watch page body without the consent form reaches the key
\* extraction, a body with a key raises nothing and the data API POST follows,
\* with or without the CAPTCHA marker; a body without a key raises IpBlocked if
\* it has the CAPTCHA marker, which is retried while the budget allows, and
\* YouTubeDataUnparsable otherwise, which is never retried.
C26_ApiKeyExtraction ==
    [][(tpc \in {"page", "page2"} /\ transcript' # transcript /\ rpc' = rpc
            /\ response' # Null /\ response'[1] \in 200..299
            /\ html' # Null /\ ~html'[1].consent)
        => LET body == html'[1]
           IN  /\ body.key =>
                     (tpc' = "innertube" /\ attempts' = attempts /\ terr' = terr)
               /\ (~body.key /\ body.captcha) =>
                     /\ terr'[1].name = "IpBlocked"
                     /\ IF tryNumber + 1 < RetriesOf(proxyConfig)
                        THEN tpc' = "page" /\ attempts' = attempts + 1
                        ELSE tpc' = "failed" /\ attempts' = attempts
               /\ (~body.key /\ ~body.captcha) =>
                     /\ terr'[1].name = "YouTubeDataUnparsable"
                     /\ tpc' = "failed" /\ attempts' = attempts]_vars

\* a body with both a key and the CAPTCHA marker led to the data API POST
C26_Witness ==
    /\ tpc = "innertube" /\ html # Null
    /\ html[1].key /\ html[1].captcha /\ ~html[1].consent

\* C27: every data API answer falls under exactly one of the cases, and gets
\* its outcome: LOGIN_REQUIRED with the bot-detection reason RequestBlocked,
\* LOGIN_REQUIRED with the age reason AgeRestricted, ERROR with the unavailable
\* reason InvalidVideoId for a videoId that is a URL and VideoUnavailable
\* otherwise, every other status but OK VideoUnplayable with the reason, OK or
\* no status without a list of caption tracks TranscriptsDisabled, and OK or no
\* status with caption tracks no error.
C27_ClassificationTotal ==
    (call # Null /\ call.fn = "classify") =>
        LET d == call.data
            playable == d.status \in {"", "OK"}
            bot == d.status = "LOGIN_REQUIRED" /\ d.reason = "bot"
            age == d.status = "LOGIN_REQUIRED" /\ d.reason = "age"
            gone == d.status = "ERROR" /\ d.reason = "unavailable"
            cases == <<
                <<bot, "RequestBlocked", "">>,
                <<age, "AgeRestricted", "">>,
                <<gone /\ call.isUrl, "InvalidVideoId", "">>,
                <<gone /\ ~call.isUrl, "VideoUnavailable", "">>,
                <<~playable /\ ~bot /\ ~age /\ ~gone, "VideoUnplayable", d.reason>>,
                <<playable /\ d.tracks # "listed", "TranscriptsDisabled", "">>,
                <<playable /\ d.tracks = "listed", "", "">> >>
        IN  /\ Cardinality({i \in 1..Len(cases) : cases[i][1]}) = 1
            /\ \A i \in 1..Len(cases) :
                  cases[i][1] => (ret.name = cases[i][2] /\ ret.reason = cases[i][3])

\* the bot-detection answer to a videoId that is not a URL was classified
C27_Witness ==
    /\ call # Null /\ call.fn = "classify"
    /\ call.data.status = "LOGIN_REQUIRED" /\ call.data.reason = "bot"
    /\ ret.name = "RequestBlocked"

\* C28: findTranscript returns, for the first requested code that has a track
\* in either dictionary, the manual track of that code if there is one and the
\* generated track of that code otherwise; when no requested code has a track
\* it fails with NoTranscriptFound carrying the requested codes and the list.
C28_ManualBeforeGenerated ==
    (call # Null /\ call.fn = "findTranscript") =>
        LET codes == call.languageCodes
            has(i) == codes[i] \in call.list.manual \cup call.list.generated
            hits == {i \in 1..Len(codes) : has(i)}
        IN  IF hits = {}
            THEN ret = [error |-> "NoTranscriptFound", requestedLanguageCodes |-> codes,
                        transcriptData |-> call.list]
            ELSE LET first == CHOOSE i \in hits : \A j \in hits : i <= j
                 IN  /\ ret.languageCode = codes[first]
                     /\ ret.isGenerated = (codes[first] \notin call.list.manual)

\* a language with both a manual and a generated track was requested after a
\* language without any track
C28_Witness ==
    /\ call # Null /\ call.fn = "findTranscript"
    /\ call.languageCodes = <<"de", "en">>
    /\ call.list = [manual |-> {"en"}, generated |-> {"en"}]
    /\ ret = [languageCode |-> "en", isGenerated |-> FALSE]

\* C29: parse returns one snippet for each <text> element, in document order,
\* whose start and duration are the numbers written in the start and dur
\* attributes, and 0 for an attribute that is absent or whose value is not a
\* number.
C29_SnippetDefaultsToZero ==
    (call # Null /\ call.fn = "parse") =>
        LET number(value) == IF value = Some("2") THEN 2 ELSE 0
        IN  /\ Len(ret) = Len(call.rawData)
            /\ \A i \in 1..Len(ret) :
                  /\ ret[i].start = number(call.rawData[i].start)
                  /\ ret[i].duration = number(call.rawData[i].dur)

\* C30: the result of deduplicateProxies holds no two proxies with the same
\* address string; it is the list of the first occurrences of the addresses
\* of its argument, in the order of the argument; and deduplicateProxies
\* applied to the result returns the result.
C30_DeduplicateIdempotent ==
    (call # Null /\ call.fn = "deduplicateProxies") =>
        LET list == call.list
            firsts == {i \in 1..Len(list) :
                          \A j \in 1..(i - 1) : asString(list[j]) # asString(list[i])}
        IN  /\ \A i, j \in 1..Len(ret) : asString(ret[i]) = asString(ret[j]) => i = j
            /\ Len(ret) = Cardinality(firsts)
            /\ \A i \in firsts :
                  ret[Cardinality({j \in firsts : j <= i})] = list[i]
            /\ deduplicateProxies(ret) = ret

\* a list whose first address comes back after another one was deduplicated
C30_Witness ==
    /\ call # Null /\ call.fn = "deduplicateProxies"
    /\ call.list = <<Proxy(1, "http"), Proxy(2, "http"), Proxy(1, "http")>>
    /\ ret = <<Proxy(1, "http"), Proxy(2, "http")>>

\* C31: validateProxies returns, in input order, exactly the candidates whose
\* probe completed and reported an IPv4 address other than the caller's own;
\* a candidate whose probe failed, reported no address or reported the
\* caller's address is left out and the call still returns; when the caller's
\* address is unknown, every candidate whose probe reported an address is kept.
C31_ValidatedSubset ==
    (call # Null /\ call.fn = "validateProxies") =>
        LET n == Len(call.list)
            good(i) == /\ call.probes[i].completed
                       /\ call.probes[i].ip # Null
                       /\ (call.hostIp # Null => call.probes[i].ip[1] # call.hostIp[1])
            kept == {i \in 1..n : good(i)}
        IN  /\ Len(ret) = Cardinality(kept)
            /\ \A i \in kept : ret[Cardinality({j \in kept : j <= i})] = call.list[i]

\* of two candidates the first reported the caller's own address and was
\* dropped, the second reported another address and was kept
C31_Witness ==
    /\ call # Null /\ call.fn = "validateProxies"
    /\ call.hostIp = Some(1) /\ Len(call.list) = 2
    /\ call.probes[1] = [completed |-> TRUE, ip |-> Some(1)]
    /\ call.probes[2] = [completed |-> TRUE, ip |-> Some(2)]
    /\ ret = <<Proxy(2, "http")>>

\* C32: in a call of runWithConcurrency the task of every index is started at
\* most once and its slot written at most once, no two workers hold the same
\* index, at most `limit` tasks are in flight, a slot that is set holds the
\* value of the task of its own index or null, null exactly for a failed
\* task, and the call returns only when the task of every index has run once,
\* has settled and has written its slot, failed tasks included.
C32_WorkerPoolPartitionsByIndex ==
    poolpc # "idle" =>
        LET running == {w \in DOMAIN wpos : wpos[w].pc = "run"}
        IN  /\ \A i \in 1..items : wlog[i].runs <= 1 /\ wlog[i].writes <= wlog[i].runs
            /\ \A v, w \in running : wpos[v].currentIndex = wpos[w].currentIndex => v = w
            /\ Cardinality(running) <= limit
            /\ \A i \in 1..items :
                  /\ results[i].set <=> wlog[i].writes = 1
                  /\ results[i].set =>
                        results[i].value = (IF wlog[i].failed THEN Null ELSE Some(i - 1))
            /\ poolpc = "returned" =>
                  /\ running = {}
                  /\ \A i \in 1..items : wlog[i].runs = 1 /\ results[i].set

\* a call with more tasks than workers returned after a task had failed
C32_Witness ==
    /\ poolpc = "returned" /\ items > limit /\ limit > 1
    /\ \E i, j \in 1..items : wlog[i].failed /\ ~wlog[j].failed

\* C33: at the warm endpoint at most one update() is in flight; every request
\* that waits awaits the update() the trigger started last, and warmPromise is
\* set exactly while that update() is pending; an authorized request that
\* arrives when no update() is pending starts a new one, and one that arrives
\* while one is pending starts none; a request that fails the bearer-token
\* check is answered 401 at once and starts no update() and writes no list
\* file.
C33_WarmSharesOneUpdate ==
    [][/\ Cardinality({t \in 1..NumCallers : InFlight(t)'}) <= 1
       /\ \A r \in 1..NumRequests :
             wreq'[r].pc = "await" => (warmPromise' # Null /\ wreq'[r].update = warmStarts')
       /\ (\E t \in 1..NumCallers : InFlight(t)') => warmPromise' # Null
       /\ \A r \in 1..NumRequests :
             (wreq[r].pc = "idle" /\ wreq'[r].pc # "idle") =>
                LET authorized == wreq'[r].secret = Null
                                    \/ wreq'[r].header = Some("Bearer s")
                IN  IF authorized
                    THEN /\ wreq'[r].pc = "await"
                         /\ warmStarts' = IF \E t \in 1..NumCallers : InFlight(t)
                                          THEN warmStarts ELSE warmStarts + 1
                    ELSE /\ wreq'[r].pc = "401"
                         /\ UNCHANGED <<pool, utask, cacheFile, warmPromise, warmStarts>>]_vars

\* two requests shared one update(), and after it had settled a third request
\* started a second one
C33_Witness ==
    /\ warmStarts = 2
    /\ wreq[1].pc \in {"200", "200 listWritten", "500"} /\ wreq[1].update = 1
    /\ wreq[2].pc \in {"200", "200 listWritten", "500"} /\ wreq[2].update = 1
    /\ wreq[3].pc = "await" /\ wreq[3].update = 2

\* C34: extractVideoId returns the id for a bare id, for watch?v=<id>,
\* /shorts/<id>, /embed/<id> and /live/<id> on the hosts of youtube.com and
\* for /<id> on the hosts of youtu.be, all of them hosts of the known set; it
\* returns null for every other input; and a result that is not null matches
\* the pattern of an id.
C34_ExtractsSupportedShapesOnly ==
    (call # Null /\ call.fn = "extractVideoId") =>
        LET input == call.input
            shortHost == input.hostname \in {"youtu.be", "www.youtu.be"}
            supported ==
                IF input.kind = "text" THEN {t \in {input.text} : VIDEO_ID_REGEX(t)}
                ELSE IF input.hostname \notin YOUTUBE_HOSTS THEN {}
                ELSE IF shortHost
                THEN {t \in Texts : VIDEO_ID_REGEX(t) /\ input.pathname = <<t>> /\ input.v = Null}
                ELSE {t \in Texts : /\ VIDEO_ID_REGEX(t)
                                    /\ \/ input.pathname = <<"watch">> /\ input.v = Some(t)
                                       \/ /\ input.v = Null
                                          /\ \E shape \in {"shorts", "embed", "live"} :
                                                input.pathname = <<shape, t>>}
        IN  /\ \A t \in supported : ret = Some(t)
            /\ supported = {} => ret = Null
            /\ ret # Null => VIDEO_ID_REGEX(ret[1])

\* C35: while a fetch() of a pipeline constructed with a proxy configuration
\* waits for the answer to one of its requests (watch page, data API, caption
\* document), that request went through a proxy and not out directly.
C35_ProxiedPipelineNeverDirect ==
    (proxyConfig # Null /\ proxyConfig[1].url # ""
        /\ tpc \in {"page", "page2", "innertube", "snippets"})
        => via # Null

\* C36: a refresh that fails leaves the pool as it was before it.  At the warm
\* endpoint, where nothing but update() writes the pool: when the update() a
\* request waited for has thrown, and the update() before it had succeeded,
\* the pool still holds its proxies, a current proxy and an expiry.
C36_FailedUpdateKeepsPool ==
    (/\ warmPromise = Null
     /\ \E r, q \in 1..NumRequests :
          /\ wreq[r].pc \in {"200", "200 listWritten"}
          /\ wreq[q].pc = "threw"
          /\ wreq[q].update = wreq[r].update + 1
          /\ wreq[q].update = warmStarts)
        => (proxies # <<>> /\ current # Null /\ cacheExpiry # Null)

\* C37: after every step of a pool, the maxproxies setter included, configString
\* is the fingerprint of the pool's maxProxies, protocol and countries; and an
\* update() populates the pool from the cache record only when the record was
\* written under the pool's present maxProxies, protocol and countries.
C37_FingerprintFollowsMaxProxies ==
    [][/\ configString' = ConfigStringOf(maxProxies', protocol', countries')
       /\ \A t \in Tasks :
            (path[t] # "cache" /\ path'[t] = "cache") =>
                cacheFile[1].configString = ConfigStringOf(maxProxies, protocol, countries)]_vars

\* C38: the Cookie header getHeader computes for a host holds a stored cookie,
\* in the order of storing, only if the cookie's domain, its leading dot
\* removed, is the host or the host is a subdomain of it, that is the host
\* ends with a dot followed by the domain.
C38_CookieOnlyToOwnDomain ==
    (call # Null /\ call.fn = "getHeader") =>
        LET host == Pieces[call.host]
            own(cookie) ==
                LET d == Pieces[cookie.domain]
                    bare == IF Len(d) > 0 /\ d[1] = "." THEN Tail(d) ELSE d
                IN  /\ bare # <<>>
                    /\ \/ host = bare
                       \/ /\ Len(host) > Len(bare) + 1
                          /\ SubSeq(host, Len(host) - Len(bare), Len(host)) = <<".">> \o bare
        IN  \A i \in 1..Len(ret) :
               \E j \in 1..Len(call.cookies) :
                  /\ own(call.cookies[j])
                  /\ ret[i] = call.cookies[j].name \o "=" \o call.cookies[j].value

\* C39: in every state of a fetch(), over all its attempts, the cookie jar
\* holds at most one CONSENT cookie for .youtube.com, and the Cookie header of
\* a request to www.youtube.com holds the CONSENT cookie at most once.
C39_OneConsentCookie ==
    /\ Cardinality({i \in 1..Len(cookieJar) :
                       cookieJar[i].name = "CONSENT" /\ cookieJar[i].domain = ".youtube.com"}) <= 1
    /\ Len(getHeader(cookieJar, "www.youtube.com")) <= 1

\* C40: fetchTranscriptWithProxyRotation, once called, ends, having started at
\* most MAX_PROXY_ATTEMPTS transcript attempts.  Each attempt starts when a
\* get() of the pool has returned a proxy, and is configured with that proxy.
\* It returns when an attempt has returned a transcript; an attempt that
\* failed with an error that is no block ends it at once with that error; a
\* get() that failed ends it at once with the pool's error; a blocked attempt
\* is followed by the next get() while fewer than MAX_PROXY_ATTEMPTS attempts
\* were made, and the last of them ends it with its block error.
C40_RotationBoundedAndEnds ==
    /\ [][LET blocked == terr # Null /\ terr[1].name \in {"RequestBlocked", "IpBlocked"}
          IN  /\ attempt' <= MAX_PROXY_ATTEMPTS
              /\ (rpc # "fetch" /\ rpc' = "fetch") =>
                    /\ rpc = "get" /\ pc[1] = "done" /\ result[1] # Null
                    /\ attempt < MAX_PROXY_ATTEMPTS /\ attempt' = attempt
                    /\ proxyConfig' = Some(GenericProxyConfig(asString(result[1][1])))
              /\ (rpc # "done" /\ rpc' = "done") => (rpc = "fetch" /\ tpc = "done")
              /\ (rpc = "fetch" /\ rpc' # "fetch") =>
                    /\ tpc \in {"done", "failed"}
                    /\ tpc = "done" => rpc' = "done"
                    /\ (tpc = "failed" /\ ~blocked) =>
                          (rpc' = "failed" /\ lastError' = terr /\ attempt' = attempt)
                    /\ (tpc = "failed" /\ blocked) =>
                          /\ attempt' = attempt + 1
                          /\ lastError' = terr
                          /\ rpc' = IF attempt' < MAX_PROXY_ATTEMPTS THEN "get" ELSE "failed"
              /\ (rpc = "get" /\ rpc' # "get" /\ pc[1] = "failed") =>
                    (rpc' = "failed" /\ lastError'[1].name = err[1] /\ attempt' = attempt)]_vars
    /\ (rpc = "get") ~> (rpc \in {"done", "failed"})

\* three attempts, each through a proxy of the pool, were blocked, and the
\* function threw the block error of the third
C40_Witness ==
    /\ rpc = "failed" /\ attempt = MAX_PROXY_ATTEMPTS
    /\ lastError # Null /\ lastError[1].name \in {"RequestBlocked", "IpBlocked"}
    /\ lastError = terr

====
